---- MODULE Spec2Model ----
(***************************************************************************)
(* Case identity resolution and dual-store synchronization of              *)
(* tokiwa-app/akiyama-order:                                               *)
(*   - the management-number allocator (afterProcess.js ensureManagementNo7*)
(*     and the older growing-width ensureManagementNo), a Firestore        *)
(*     transaction on the singleton counter document;                      *)
(*   - the relational mirror (supabaseSync.js): ensureCaseByManagementNo,  *)
(*     migrateCaseManagementNo, mirrorMessageToSupabaseBasic and           *)
(*     mirrorMessageToSupabaseFull, one store round trip per step.         *)
(***************************************************************************)
EXTENDS Integers, Sequences, FiniteSets, Bags, TLC

NULL == "null"
\* absent row id, absent path, absent customer, absent message row
NoId == 0
NoPath == <<>>
NoCustomer == [id |-> NULL, name |-> NULL]
NoRow == [id |-> NULL]
NoData == [messageType |-> NULL]

(***************************************************************************)
(* Bounds of the model                                                     *)
(***************************************************************************)
\* number of concurrent allocate() callers
MaxAllocs == 3
\* how far from 0 and from the capacity 16^digits the initial counter lies
NearCap == 3
\* number of Basic / Full runs started one after another in one behaviour
MaxRuns == 3
\* number of Basic / Full runs started in a behaviour of two workers
MaxConcRuns == 2
\* number of Basic / Full runs started in a behaviour with failing round trips
MaxFaultRuns == 2
\* number of process-batch requests in a behaviour of batch workers
MaxBatchRuns == 2
\* the last tick of the clock
MaxNow == 23
\* rows of message_main_pdf_files in a behaviour of requests without end
MaxPdfRows == 2
\* number of direct ensure / migrate calls made one after another
MaxCalls == 3
\* number of runAfterProcess calls made one after another
MaxAfterRuns == 2

(***************************************************************************)
(* Hexadecimal rendering: next.toString(16).toUpperCase().padStart(w, "0") *)
(***************************************************************************)
HexDigit == <<"0","1","2","3","4","5","6","7","8","9","A","B","C","D","E","F">>

RECURSIVE ToHex(_)
ToHex(n) ==
  IF n < 16 THEN <<HexDigit[n + 1]>>
  ELSE ToHex(n \div 16) \o <<HexDigit[(n % 16) + 1]>>

\* the rendering with no padding
PadStartNone(s, w) == s

RECURSIVE PadStart(_, _)
PadStart(s, w) == IF Len(s) >= w THEN s ELSE PadStart(<<"0">> \o s, w)

DigitVal(c) == (CHOOSE i \in 1..16 : HexDigit[i] = c) - 1

RECURSIVE ParseHex(_)
ParseHex(s) ==
  IF s = <<>> THEN 0
  ELSE 16 * ParseHex(SubSeq(s, 1, Len(s) - 1)) + DigitVal(s[Len(s)])

RECURSIVE Pow16(_)
Pow16(d) == IF d = 0 THEN 1 ELSE 16 * Pow16(d - 1)

\* next >= Math.pow(16, digits); every modelled counter value is below 16^8
AtCapacity(next, digits) == digits < 8 /\ next >= Pow16(digits)

(***************************************************************************)
(* Text: a JavaScript string is the sequence of its characters             *)
(***************************************************************************)
UpperCase == <<"A","B","C","D","E","F","G","H","I","J","K","L","M",
               "N","O","P","Q","R","S","T","U","V","W","X","Y","Z">>
LowerCase == <<"a","b","c","d","e","f","g","h","i","j","k","l","m",
               "n","o","p","q","r","s","t","u","v","w","x","y","z">>
DigitChars == {"0","1","2","3","4","5","6","7","8","9"}
\* the characters \s matches
WhiteSpace == {" ", "\n", "\t"}

IsUpper(c) == \E i \in 1..26 : UpperCase[i] = c
IsLower(c) == \E i \in 1..26 : LowerCase[i] = c
\* [A-Za-z0-9]
IsAlnum(c) == IsUpper(c) \/ IsLower(c) \/ c \in DigitChars

toLowerCase(cs) ==
  [i \in 1..Len(cs) |->
     IF IsUpper(cs[i]) THEN LowerCase[CHOOSE k \in 1..26 : UpperCase[k] = cs[i]]
     ELSE cs[i]]

toUpperCase(cs) ==
  [i \in 1..Len(cs) |->
     IF IsLower(cs[i]) THEN UpperCase[CHOOSE k \in 1..26 : LowerCase[k] = cs[i]]
     ELSE cs[i]]

\* the characters of cs that are in (keep) or not in (~keep) the class
Filter(cs, class, keep) == SelectSeq(cs, LAMBDA c : (c \in class) = keep)

\* text.includes(sub)
Includes(text, sub) ==
  \E i \in 0..(Len(text) - Len(sub)) : SubSeq(text, i + 1, i + Len(sub)) = sub

\* String(s).slice(0, n)
Slice(cs, n) == SubSeq(cs, 1, IF Len(cs) < n THEN Len(cs) ELSE n)

\* [a, b, c].join(" ")
Join3(a, b, c) == a \o <<" ">> \o b \o <<" ">> \o c

\* the string a sequence of characters spells
RECURSIVE Spell(_)
Spell(cs) == IF cs = <<>> THEN "" ELSE Head(cs) \o Spell(Tail(cs))

(***************************************************************************)
(* The allocator                                                           *)
(***************************************************************************)
FIXED_DIGITS == 7
DEFAULT_DIGITS == 6

NoDoc == [exists |-> FALSE, v |-> 0, digits |-> 0]
MkDoc(v, d) == [exists |-> TRUE, v |-> v, digits |-> d]

\* snap.exists && snap.data()?.v ? Number(snap.data().v) : 0
CurrentOf(snap) == IF snap.exists /\ snap.v # 0 THEN snap.v ELSE 0

\* ensureManagementNo7 without its tx.set: the counter is left as it was read
ensureManagementNo7_NoSet(snap) ==
  LET current == CurrentOf(snap)
      next0   == current + 1
      next    == IF AtCapacity(next0, FIXED_DIGITS) THEN 1 ELSE next0
  IN [doc  |-> MkDoc(current, FIXED_DIGITS),
      code |-> PadStart(ToHex(next), FIXED_DIGITS)]

\* body of the transaction of ensureManagementNo7: what it writes and returns
ensureManagementNo7(snap) ==
  LET current == CurrentOf(snap)
      digits  == FIXED_DIGITS
      next0   == current + 1
      next    == IF AtCapacity(next0, digits) THEN 1 ELSE next0
  IN [doc  |-> MkDoc(next, digits),
      code |-> PadStart(ToHex(next), digits)]

\* body of the transaction of ensureManagementNo (growing width)
ensureManagementNo(snap) ==
  LET current == CurrentOf(snap)
      digits  == IF snap.exists /\ snap.digits # 0 THEN snap.digits
                 ELSE DEFAULT_DIGITS
      next0   == current + 1
      grow    == AtCapacity(next0, digits)
      next    == IF grow THEN 1 ELSE next0
      newDigits == IF grow THEN digits + 1 ELSE digits
  IN [doc  |-> MkDoc(next, newDigits),
      code |-> PadStart(ToHex(next), newDigits)]

VARIABLES
  variant,   \* which allocator the deployment runs: "fixed7" or "grow"
  seqDoc,    \* system_configs/sequence_managementNo_global
  seqVer,    \* write version of the counter document
  tx,        \* per caller: the state of its runTransaction
  allocLog,  \* committed allocations in commit order
  doc0,      \* the counter document at the start (its allocation history)
  docs,         \* Firestore messages/<id>
  cases,        \* table cases: row id -> row (ids are assigned in order)
  messages,     \* table messages: id -> row, or NoRow
  attachments,  \* table message_attachments: a bag of rows
  mainPdfs,     \* table message_main_pdf_files: a bag of rows
  loc,          \* per worker: the run it is in and its local variables
  runs,         \* completed runs, in completion order
  started,      \* number of runs started
  runLimit,     \* number of runs a behaviour may start
  workers,      \* the workers that take part
  batch,        \* table messages: the columns the process-batch route owns
  bloc,         \* the process-batch request in flight and its local variables
  master,       \* customer master lists (Client Search sheet, Firestore doc)
  match,        \* the customer-matcher call under study and its result
  apLog,        \* completed runAfterProcess calls, in completion order
  now,          \* the wall clock, in ticks
  lastHistoryId, \* gmail_users/<mailbox>.lastHistoryId, 0 when not stored
  histJob       \* per history job: where it is and its local variables

extVars == <<batch, bloc, master, match, apLog, now, lastHistoryId, histJob>>

syncVars == <<docs, cases, messages, attachments, mainPdfs, loc, runs,
              started, runLimit, workers, batch, bloc, master, match, apLog,
              now,
              lastHistoryId, histJob>>

allocVars == <<variant, seqDoc, seqVer, tx, allocLog, doc0>>

Allocators == 1..MaxAllocs

TxIdle == [pc |-> "idle", snap |-> NoDoc, ver |-> 0, code |-> <<>>, tries |-> 0]

TxBody(snap) ==
  IF variant = "fixed7" THEN ensureManagementNo7(snap)
  ELSE ensureManagementNo(snap)

\* counter documents the program can have reached
InitDocs(var) ==
  IF var = "fixed7"
  THEN {NoDoc}
       \cup {MkDoc(v, FIXED_DIGITS) : v \in 1..NearCap}
       \cup {MkDoc(Pow16(FIXED_DIGITS) - k, FIXED_DIGITS) : k \in 1..NearCap}
  ELSE {NoDoc}
       \cup {MkDoc(v, DEFAULT_DIGITS) : v \in 1..NearCap}
       \cup {MkDoc(Pow16(DEFAULT_DIGITS) - k, DEFAULT_DIGITS) : k \in 1..NearCap}

AllocInit(var) ==
  /\ variant = var
  /\ seqDoc \in InitDocs(var)
  /\ doc0 = seqDoc
  /\ seqVer = 0
  /\ tx = [a \in Allocators |-> TxIdle]
  /\ allocLog = <<>>

\* firestore.runTransaction: tx.get(seqRef)
TxGet(a) ==
  /\ tx[a].pc = "idle"
  /\ tx' = [tx EXCEPT ![a] = [pc |-> "read", snap |-> seqDoc,
                              ver |-> seqVer, code |-> <<>>,
                              tries |-> tx[a].tries + 1]]
  /\ UNCHANGED <<variant, seqDoc, seqVer, allocLog, doc0>>
  /\ UNCHANGED syncVars

\* a plain get-then-set, with no transaction around it
CommitUnchecked(readVer, curVer) == TRUE

\* the commit is accepted only when the document read is still current
CommitAllowed(readVer, curVer) == readVer = curVer

\* tx.set(...) and commit; the function's value is returned to the caller
TxCommit(a) ==
  /\ tx[a].pc = "read"
  /\ CommitAllowed(tx[a].ver, seqVer)
  /\ LET r == TxBody(tx[a].snap) IN
       /\ seqDoc' = r.doc
       /\ seqVer' = seqVer + 1
       /\ tx' = [tx EXCEPT ![a].pc = "done", ![a].code = r.code]
       /\ allocLog' = Append(allocLog,
                             [caller |-> a, read |-> tx[a].snap,
                              wrote |-> r.doc, code |-> r.code])
  /\ UNCHANGED <<variant, doc0>>
  /\ UNCHANGED syncVars

\* contention: the transaction function is run again from its read
TxRetry(a) ==
  /\ tx[a].pc = "read"
  /\ ~CommitAllowed(tx[a].ver, seqVer)
  /\ tx' = [tx EXCEPT ![a].pc = "idle"]
  /\ UNCHANGED <<variant, seqDoc, seqVer, allocLog, doc0>>
  /\ UNCHANGED syncVars

\* a failed transaction whose write reached the counter all the same
TxFailDirty(a) ==
  /\ tx[a].pc = "read"
  /\ seqDoc' = TxBody(tx[a].snap).doc
  /\ seqVer' = seqVer + 1
  /\ tx' = [tx EXCEPT ![a].pc = "failed"]
  /\ UNCHANGED <<variant, allocLog, doc0>>
  /\ UNCHANGED syncVars

\* runTransaction rejects (the commit fails, or the attempts are used up):
\* nothing of the transaction is written and the caller gets the error
TxFail(a) ==
  /\ tx[a].pc = "read"
  /\ tx' = [tx EXCEPT ![a].pc = "failed"]
  /\ UNCHANGED <<variant, seqDoc, seqVer, allocLog, doc0>>
  /\ UNCHANGED syncVars

\* one allocate() call with no other caller in flight
Allocate(a) ==
  /\ tx[a].pc = "idle"
  /\ \A b \in Allocators : tx[b].pc # "read"
  /\ LET r == TxBody(seqDoc) IN
       /\ seqDoc' = r.doc
       /\ seqVer' = seqVer + 1
       /\ tx' = [tx EXCEPT ![a] = [pc |-> "done", snap |-> seqDoc,
                                   ver |-> seqVer, code |-> r.code,
                                   tries |-> 1]]
       /\ allocLog' = Append(allocLog,
                             [caller |-> a, read |-> seqDoc,
                              wrote |-> r.doc, code |-> r.code])
  /\ UNCHANGED <<variant, doc0>>
  /\ UNCHANGED syncVars

AllocNext == \E a \in Allocators : TxGet(a) \/ TxCommit(a) \/ TxRetry(a)

AllocSeqNext == \E a \in Allocators : Allocate(a)

\* concurrent callers whose transactions can also fail
AllocTxNext ==
  \E a \in Allocators : TxGet(a) \/ TxCommit(a) \/ TxRetry(a) \/ TxFail(a)

(***************************************************************************)
(* The message documents (Firestore) read by the sync phases               *)
(***************************************************************************)
Messages == {"m1", "m2"}
Workers == {"w1", "w2"}

\* object paths, as their "/"-separated segments
PathA == <<"gmail", "m1", "a.pdf">>
PathB == <<"gmail", "m1", "b.png">>
PathMain == <<"rendered", "main.pdf">>
PathThumb == <<"rendered", "main.png">>

\* attachment lists saveMessageDoc can store: one path per saved part, so two
\* parts with the same filename give the same path twice
AttLists == {<<>>, <<PathA>>, <<PathA, PathB>>, <<PathA, PathA>>}

Customer1 == [id |-> "c1", name |-> "Acme"]

\* textHtml as pieces, a piece being a tag or text
HtmlBody == <<[tag |-> TRUE, s |-> "<p>"], [tag |-> FALSE, s |-> "hello"]>>

\* html.replace(/<[^>]*>/g, " ")
stripHtmlTags(html) ==
  [i \in 1..Len(html) |-> IF html[i].tag THEN " " ELSE html[i].s]

\* the document of a message; `done` tells whether post-processing has
\* already stored its results (managementNo, customer, mainPdfPath, ocr)
MessageDoc(m, atts, done) ==
  [messageType  |-> IF m = "m1" THEN "mail" ELSE "fax",
   subject      |-> IF m = "m1" THEN "subj1" ELSE "subj2",
   from         |-> IF m = "m1" THEN "a@x.com" ELSE "fax@x.com",
   to           |-> "order@x.com",
   snippet      |-> IF m = "m1" THEN "snip1" ELSE "snip2",
   receivedAt   |-> IF m = "m1" THEN 10 ELSE 20,
   textPlain    |-> "",
   textHtml     |-> IF m = "m1" THEN HtmlBody ELSE <<>>,
   attachments  |-> IF m = "m1" THEN atts ELSE <<>>,
   customerId   |-> IF done THEN "c0" ELSE NULL,
   customerName |-> IF done THEN "Stored" ELSE NULL,
   managementNo |-> IF done THEN "A0" ELSE NULL,
   mainPdfPath  |-> IF done THEN PathMain ELSE NoPath,
   ocrFullText  |-> IF done /\ m = "m2" THEN "ocr-stored" ELSE NULL]

\* arguments a caller passes to mirrorMessageToSupabaseFull
FullArgs ==
  { [managementNo |-> "A1", customer |-> Customer1, mainPdfPath |-> PathMain,
     mainPdfThumbnailPath |-> PathThumb, fullOcrText |-> "ocr-text"],
    [managementNo |-> "A2", customer |-> NoCustomer, mainPdfPath |-> NoPath,
     mainPdfThumbnailPath |-> NoPath, fullOcrText |-> NULL],
    [managementNo |-> NULL, customer |-> NoCustomer, mainPdfPath |-> NoPath,
     mainPdfThumbnailPath |-> NoPath, fullOcrText |-> NULL] }

NoArgs == [managementNo |-> NULL, customer |-> NoCustomer, mainPdfPath |-> NoPath,
           mainPdfThumbnailPath |-> NoPath, fullOcrText |-> NULL]

\* a ?? b, for strings and for paths
Coalesce(a, b) == IF a # NULL THEN a ELSE b
CoalescePath(a, b) == IF a # NoPath THEN a ELSE b

\* p.split("/").pop() || null
FileName(p) == IF p[Len(p)] = "" THEN NULL ELSE p[Len(p)]

(***************************************************************************)
(* The relational mirror (Supabase)                                        *)
(***************************************************************************)
vars == <<variant, seqDoc, seqVer, tx, allocLog, doc0,
          docs, cases, messages, attachments, mainPdfs, loc, runs,
          started, runLimit, workers, batch, bloc, master, match, apLog,
              now, lastHistoryId, histJob>>

Idle == [pc |-> "idle", kind |-> NULL, msg |-> NULL, args |-> NoArgs,
         data |-> NoData, key |-> NULL, oldKey |-> NULL, existing |-> NoId,
         oldCase |-> NoId, caseId |-> NoId, conc |-> FALSE, failed |-> NULL]

\* the store as the claims compare it
Db == [cases |-> cases, messages |-> messages, attachments |-> attachments,
       mainPdfs |-> mainPdfs]

\* the message has a row in the table
HasRowOf(table, m) == table[m] # NoRow

\* a select that never finds the row
SelectCaseNever(key) == [error |-> FALSE, id |-> NoId]

\* .select("id").eq("management_no", key).maybeSingle(): the row, nothing,
\* or an error when several rows match
SelectCase(key) ==
  LET hit == {i \in DOMAIN cases : cases[i].management_no = key} IN
  IF hit = {} THEN [error |-> FALSE, id |-> NoId]
  ELSE IF Cardinality(hit) = 1
       THEN [error |-> FALSE, id |-> CHOOSE i \in hit : TRUE]
       ELSE [error |-> TRUE, id |-> NoId]

(***************************************************************************)
(* State outside the mirror: the process-batch columns and requests, the   *)
(* customer master lists, the matcher call, the post-processing log        *)
(***************************************************************************)
BatchWorkers == {"b1", "b2"}

\* the columns of a message row that only the process-batch route writes;
\* a timestamp column holds 0 for null
NoBatchCols == [processed_at |-> 0, processing_at |-> 0, ocr_status |-> NULL,
                ocr_error |-> NULL, ocr_text |-> NULL, customer_id |-> NULL,
                customer_name |-> NULL]

\* limit is the request's limit, lockedAt the time of the lock update of the
\* message in hand, fault what went wrong inside runOcrForAttachments
BatchIdle == [pc |-> "idle", queue |-> <<>>, m |-> NoRow, attachments |-> {},
              mainPdfPath |-> NoPath, ocrText |-> "", customer |-> NoCustomer,
              err |-> NULL, processed |-> 0, limit |-> 0, lockedAt |-> 0,
              fault |-> NULL]

NoMaster == [kind |-> "sheet", sheet |-> [exists |-> FALSE, matrix |-> <<>>],
             doc |-> [exists |-> FALSE, customers |-> <<>>]]

NoMatch == [pc |-> "idle", text |-> <<>>, result |-> NoCustomer]

\* the history jobs of one mailbox (/tasks/gmail-history requests)
HistJobs == {"j1", "j2"}

HistIdle == [pc |-> "idle", historyId |-> 0, lastHistoryId |-> 0, curId |-> 0]

\* no history id stored, no history job in flight
HistoryQuiet ==
  /\ lastHistoryId = 0
  /\ histJob = [j \in HistJobs |-> HistIdle]

ExtInit(bs) ==
  /\ batch = [m \in Messages |-> NoBatchCols]
  /\ bloc = [b \in bs |-> BatchIdle]
  /\ master = NoMaster
  /\ match = NoMatch
  /\ apLog = <<>>
  /\ now = 1
  /\ HistoryQuiet

ExtQuiet == ExtInit({})

MirrorInit(ws, limit) ==
  /\ docs \in {[m \in Messages |-> MessageDoc(m, atts, done)] :
                 atts \in AttLists, done \in BOOLEAN}
  /\ cases = <<>>
  /\ messages = [m \in Messages |-> NoRow]
  /\ attachments = EmptyBag
  /\ mainPdfs = EmptyBag
  /\ loc = [w \in Workers |-> Idle]
  /\ runs = <<>>
  /\ started = 0
  /\ runLimit = limit
  /\ workers = ws

SyncInit(ws, limit) == ExtQuiet /\ MirrorInit(ws, limit)

\* a run or call ends: its outcome, its returned value and the first store
\* round trip of it that failed are logged and the worker is free again
FinishWith(w, outcome, ret, failed) ==
  /\ loc' = [loc EXCEPT ![w] = Idle]
  /\ runs' = Append(runs, [kind |-> loc[w].kind, msg |-> loc[w].msg,
                           args |-> loc[w].args, conc |-> loc[w].conc,
                           outcome |-> outcome, worker |-> w,
                           key |-> loc[w].key, oldKey |-> loc[w].oldKey,
                           data |-> loc[w].data, ret |-> ret,
                           failed |-> failed,
                           db |-> [cases |-> cases', messages |-> messages',
                                   attachments |-> attachments',
                                   mainPdfs |-> mainPdfs']])

FinishRet(w, outcome, ret) == FinishWith(w, outcome, ret, loc[w].failed)

Finish(w, outcome) == FinishRet(w, outcome, NoId)

(***************************************************************************)
(* Values a run computes from the message document and its arguments       *)
(***************************************************************************)
\* getReceivedAt(data).toISOString(): every stored document has receivedAt
getReceivedAt(data) == data.receivedAt

\* managementNo || data.managementNo
FinalManagementNo(args, data) == Coalesce(args.managementNo, data.managementNo)

\* mainPdfPath ?? data.mainPdfPath ?? data.main_pdf_path ?? null
FinalMainPdfPath(l) == CoalescePath(l.args.mainPdfPath, l.data.mainPdfPath)

RunCustomerId(l) ==
  IF l.kind = "basic" THEN l.data.customerId
  ELSE Coalesce(l.args.customer.id, l.data.customerId)

RunCustomerName(l) ==
  IF l.kind = "basic" THEN l.data.customerName
  ELSE Coalesce(l.args.customer.name, l.data.customerName)

\* textPlain, else the stripped textHtml, else ""
MailBody(data) ==
  IF data.textPlain # "" THEN <<data.textPlain>>
  ELSE IF data.textHtml # <<>> THEN stripHtmlTags(data.textHtml)
  ELSE <<>>

BasicBodyText(data) ==
  IF data.messageType # "fax" THEN MailBody(data) ELSE <<data.snippet>>

BasicBodyType(data) ==
  IF data.messageType # "fax" THEN "mail_raw" ELSE "fax_basic"

\* fullOcrText ?? data.ocr?.fullText ?? ""
FullBodyText(l) ==
  IF l.data.messageType = "fax"
  THEN <<Coalesce(l.args.fullOcrText, Coalesce(l.data.ocrFullText, ""))>>
  ELSE MailBody(l.data)

\* the Full phase tagging the body as the Basic phase does
FullBodyTypeAsBasic(data) == BasicBodyType(data)

FullBodyType(data) == IF data.messageType = "fax" THEN "fax_ocr" ELSE "mail_raw"

CaseFields(l) ==
  [customer_id |-> RunCustomerId(l), customer_name |-> RunCustomerName(l),
   title |-> l.data.subject, latest_message_at |-> getReceivedAt(l.data)]

MessagePayload(l, pdf, bodyText, bodyType) ==
  [id |-> l.msg, case_id |-> l.caseId, message_type |-> l.data.messageType,
   subject |-> l.data.subject, from_email |-> l.data.from,
   to_email |-> l.data.to, received_at |-> getReceivedAt(l.data),
   snippet |-> l.data.snippet, main_pdf_path |-> pdf,
   body_text |-> bodyText, body_type |-> bodyType]

BasicPayload(l) ==
  MessagePayload(l, NoPath, BasicBodyText(l.data), BasicBodyType(l.data))

FullPayload(l) ==
  MessagePayload(l, FinalMainPdfPath(l), FullBodyText(l), FullBodyType(l.data))

\* attachments.map(p => ({...})): one row per entry of the list
AttachmentRows(l) ==
  [i \in 1..Len(l.data.attachments) |->
     [case_id |-> l.caseId, message_id |-> l.msg,
      gcs_path |-> l.data.attachments[i],
      file_name |-> FileName(l.data.attachments[i]), mime_type |-> NULL]]

MainPdfRow(l) ==
  [case_id |-> l.caseId, message_id |-> l.msg, gcs_path |-> FinalMainPdfPath(l),
   file_name |-> FileName(FinalMainPdfPath(l)), mime_type |-> "application/pdf",
   file_type |-> IF l.data.messageType = "fax" THEN "fax_original"
                 ELSE "mail_rendered",
   thumbnail_path |-> l.args.mainPdfThumbnailPath]

\* the rows of a list as a bag
RowsBag(rows) ==
  [r \in {rows[i] : i \in DOMAIN rows} |->
     Cardinality({i \in DOMAIN rows : rows[i] = r})]

\* a delete that removes nothing
DeleteNothing(table, m) == table

\* .delete().eq("message_id", m)
DeleteByMessage(table, m) ==
  [r \in {x \in DOMAIN table : x.message_id # m} |-> table[r]]

\* .insert(rows)
InsertRows(table, rows) == table (+) RowsBag(rows)

\* the kind of a run another worker has in flight on message m
InFlightKind(w, m) ==
  IF \E o \in workers \ {w} : loc[o].pc # "idle" /\ loc[o].msg = m
  THEN loc[CHOOSE o \in workers \ {w} : loc[o].pc # "idle" /\ loc[o].msg = m].kind
  ELSE NULL

(***************************************************************************)
(* mirrorMessageToSupabaseBasic / mirrorMessageToSupabaseFull, one action  *)
(* per store round trip                                                    *)
(***************************************************************************)
DbUnchanged == UNCHANGED <<cases, messages, attachments, mainPdfs>>
Frame == UNCHANGED <<variant, seqDoc, seqVer, tx, allocLog, doc0,
                     docs, runLimit, workers, batch, bloc, master, match,
                     apLog, now,
                     lastHistoryId, histJob>>

Goto(w, pc) == loc' = [loc EXCEPT ![w].pc = pc]

\* Basic: read the document, then ensure the provisional case (key = id)
StartBasic(w, m) ==
  /\ w \in workers /\ loc[w].pc = "idle" /\ started < runLimit
  /\ started' = started + 1
  /\ loc' = [loc EXCEPT ![w] =
       [Idle EXCEPT !.pc = "ensure_select", !.kind = "basic", !.msg = m,
                    !.data = docs[m], !.key = m,
                    !.conc = InFlightKind(w, m)]]
  /\ DbUnchanged /\ UNCHANGED runs /\ Frame

\* Full: read the document; without a management number the run is skipped;
\* otherwise migrateCaseManagementNo(messageId, finalManagementNo) comes first
StartFull(w, m, a) ==
  /\ w \in workers /\ loc[w].pc = "idle" /\ started < runLimit
  /\ started' = started + 1
  /\ LET final == FinalManagementNo(a, docs[m])
         l == [Idle EXCEPT !.kind = "full", !.msg = m, !.args = a,
                           !.data = docs[m], !.key = final, !.oldKey = m,
                           !.conc = InFlightKind(w, m)]
     IN IF final = NULL
        THEN /\ DbUnchanged
             /\ loc' = loc
             /\ runs' = Append(runs, [kind |-> "full", msg |-> m, args |-> a,
                                      conc |-> l.conc, outcome |-> "skipped",
                                      worker |-> w, failed |-> NULL,
                                      db |-> Db])
        ELSE /\ DbUnchanged
             /\ UNCHANGED runs
             /\ loc' = [loc EXCEPT ![w] =
                  [l EXCEPT !.pc = IF m = final THEN "ensure_select"
                                   ELSE "mig_old"]]
  /\ Frame

\* migrateCaseManagementNo returns: Full goes on to
\* ensureCaseByManagementNo, a direct call is over
MigReturn(w) ==
  IF loc[w].kind = "migrate" THEN Finish(w, "ok")
  ELSE Goto(w, "ensure_select") /\ UNCHANGED runs

\* the old case taken to be the case the message row references
MigSelectOldByMessage(w) ==
  /\ loc[w].pc = "mig_old"
  /\ DbUnchanged
  /\ IF HasRowOf(messages, loc[w].oldKey)
     THEN /\ loc' = [loc EXCEPT ![w].pc = "mig_new",
                                ![w].oldCase = messages[loc[w].oldKey].case_id]
          /\ UNCHANGED runs
     ELSE MigReturn(w)
  /\ UNCHANGED started /\ Frame

\* migrateCaseManagementNo: select the case under the old key
MigSelectOld(w) ==
  /\ loc[w].pc = "mig_old"
  /\ DbUnchanged
  /\ LET r == SelectCase(loc[w].oldKey) IN
       IF r.error \/ r.id = NoId THEN MigReturn(w)
       ELSE /\ loc' = [loc EXCEPT ![w].pc = "mig_new", ![w].oldCase = r.id]
            /\ UNCHANGED runs
  /\ UNCHANGED started /\ Frame

\* the select under the new key, its result ignored
MigSelectNewBlind(w) ==
  /\ loc[w].pc = "mig_new"
  /\ Goto(w, "mig_update")
  /\ DbUnchanged /\ UNCHANGED <<runs, started>> /\ Frame

\* migrateCaseManagementNo: select the case under the new key
MigSelectNew(w) ==
  /\ loc[w].pc = "mig_new"
  /\ DbUnchanged
  /\ LET r == SelectCase(loc[w].key) IN
       IF r.error \/ r.id # NoId THEN MigReturn(w)
       ELSE Goto(w, "mig_update") /\ UNCHANGED runs
  /\ UNCHANGED started /\ Frame

\* the update of the key left out
MigUpdateSkipped(w) ==
  /\ loc[w].pc = "mig_update"
  /\ DbUnchanged
  /\ MigReturn(w)
  /\ UNCHANGED started /\ Frame

\* migrateCaseManagementNo: update({management_no}).eq("id", oldCase.id)
MigUpdate(w) ==
  /\ loc[w].pc = "mig_update"
  /\ cases' = [cases EXCEPT ![loc[w].oldCase].management_no = loc[w].key]
  /\ UNCHANGED <<messages, attachments, mainPdfs>>
  /\ MigReturn(w)
  /\ UNCHANGED started /\ Frame

\* ensureCaseByManagementNo: the select; a select error is thrown
EnsureSelect(w) ==
  /\ loc[w].pc = "ensure_select"
  /\ DbUnchanged
  /\ LET r == SelectCase(loc[w].key) IN
       IF r.error THEN Finish(w, "threw")
       ELSE /\ UNCHANGED runs
            /\ IF r.id # NoId
               THEN loc' = [loc EXCEPT ![w].pc = "ensure_update",
                                       ![w].existing = r.id]
               ELSE Goto(w, "ensure_insert")
  /\ UNCHANGED started /\ Frame

\* ensureCaseByManagementNo returns id: Basic and Full go on to the upsert
\* of the message row, a direct call is over
EnsureReturn(w, id) ==
  IF loc[w].kind = "ensure" THEN FinishRet(w, "ok", id)
  ELSE /\ loc' = [loc EXCEPT ![w].pc = "upsert", ![w].caseId = id]
       /\ UNCHANGED runs

\* the existing row's id returned, the row not updated
EnsureUpdateSkipped(w) ==
  /\ loc[w].pc = "ensure_update"
  /\ DbUnchanged
  /\ EnsureReturn(w, loc[w].existing)
  /\ UNCHANGED started /\ Frame

\* ensureCaseByManagementNo: the row exists, update it and return its id
EnsureUpdate(w) ==
  /\ loc[w].pc = "ensure_update"
  /\ cases' = [cases EXCEPT ![loc[w].existing] =
                 CaseFields(loc[w]) @@ [id |-> @.id,
                                        management_no |-> @.management_no]]
  /\ UNCHANGED <<messages, attachments, mainPdfs>>
  /\ EnsureReturn(w, loc[w].existing)
  /\ UNCHANGED started /\ Frame

\* ensureCaseByManagementNo: no row was found, insert one and return its id
EnsureInsert(w) ==
  /\ loc[w].pc = "ensure_insert"
  /\ cases' = Append(cases, CaseFields(loc[w]) @@
                            [id |-> Len(cases) + 1,
                             management_no |-> loc[w].key])
  /\ UNCHANGED <<messages, attachments, mainPdfs>>
  /\ EnsureReturn(w, Len(cases) + 1)
  /\ UNCHANGED started /\ Frame

\* a Basic upsert that also clears the attachment rows of its message
UpsertBasicClearing(w) ==
  /\ loc[w].pc = "upsert" /\ loc[w].kind = "basic"
  /\ messages' = [messages EXCEPT ![loc[w].msg] = BasicPayload(loc[w])]
  /\ attachments' = DeleteByMessage(attachments, loc[w].msg)
  /\ UNCHANGED <<cases, mainPdfs>>
  /\ Finish(w, "ok")
  /\ UNCHANGED started /\ Frame

\* Basic: upsert the message row with the provisional fields; the run ends
UpsertBasic(w) ==
  /\ loc[w].pc = "upsert" /\ loc[w].kind = "basic"
  /\ messages' = [messages EXCEPT ![loc[w].msg] = BasicPayload(loc[w])]
  /\ UNCHANGED <<cases, attachments, mainPdfs>>
  /\ Finish(w, "ok")
  /\ UNCHANGED started /\ Frame

\* Full: upsert the message row with the final fields
UpsertFull(w) ==
  /\ loc[w].pc = "upsert" /\ loc[w].kind = "full"
  /\ messages' = [messages EXCEPT ![loc[w].msg] = FullPayload(loc[w])]
  /\ Goto(w, IF loc[w].data.messageType # "fax" THEN "del_att" ELSE "del_main")
  /\ UNCHANGED <<cases, attachments, mainPdfs, runs, started>> /\ Frame

\* Full, mail only: delete the message's attachment rows
DeleteAttachments(w) ==
  /\ loc[w].pc = "del_att"
  /\ attachments' = DeleteByMessage(attachments, loc[w].msg)
  /\ Goto(w, IF Len(loc[w].data.attachments) > 0 THEN "ins_att" ELSE "del_main")
  /\ UNCHANGED <<cases, messages, mainPdfs, runs, started>> /\ Frame

\* Full, mail only: insert one row per attachment
InsertAttachments(w) ==
  /\ loc[w].pc = "ins_att"
  /\ attachments' = InsertRows(attachments, AttachmentRows(loc[w]))
  /\ Goto(w, "del_main")
  /\ UNCHANGED <<cases, messages, mainPdfs, runs, started>> /\ Frame

\* Full: delete the message's primary-document rows
DeleteMainPdf(w) ==
  /\ loc[w].pc = "del_main"
  /\ mainPdfs' = DeleteByMessage(mainPdfs, loc[w].msg)
  /\ UNCHANGED <<cases, messages, attachments>>
  /\ IF FinalMainPdfPath(loc[w]) # NoPath
     THEN Goto(w, "ins_main") /\ UNCHANGED runs
     ELSE Finish(w, "ok")
  /\ UNCHANGED started /\ Frame

\* Full: insert the primary-document row; the run ends
InsertMainPdf(w) ==
  /\ loc[w].pc = "ins_main"
  /\ mainPdfs' = InsertRows(mainPdfs, <<MainPdfRow(loc[w])>>)
  /\ UNCHANGED <<cases, messages, attachments>>
  /\ Finish(w, "ok")
  /\ UNCHANGED started /\ Frame

(***************************************************************************)
(* ensureCaseByManagementNo and migrateCaseManagementNo called directly    *)
(***************************************************************************)
\* management numbers the calls are made with: a message id and a final code
StoreKeys == {"m1", "A1"}

\* customerId, customerName, title and latestMessageAt of an ensure call
EnsureInputs ==
  { [customerId |-> "c1", customerName |-> "Acme", subject |-> "subj1",
     receivedAt |-> 10],
    [customerId |-> NULL, customerName |-> NULL, subject |-> "subj2",
     receivedAt |-> 20] }

\* ensureCaseByManagementNo(key, customerId, customerName, title, latest)
StartEnsure(w, key, f) ==
  /\ w \in workers /\ loc[w].pc = "idle" /\ started < runLimit
  /\ started' = started + 1
  /\ loc' = [loc EXCEPT ![w] =
       [Idle EXCEPT !.pc = "ensure_select", !.kind = "ensure", !.key = key,
                    !.data = f]]
  /\ DbUnchanged /\ UNCHANGED runs /\ Frame

\* migrateCaseManagementNo(oldKey, newKey):
\* if (!oldKey || !newKey || oldKey === newKey) return
StartMigrate(w, old, new) ==
  /\ w \in workers /\ loc[w].pc = "idle" /\ started < runLimit
  /\ started' = started + 1
  /\ DbUnchanged
  /\ IF old = NULL \/ new = NULL \/ old = new
     THEN /\ loc' = loc
          /\ runs' = Append(runs, [kind |-> "migrate", msg |-> NULL,
                                   args |-> NoArgs, conc |-> NULL,
                                   outcome |-> "ok", worker |-> w,
                                   key |-> new, oldKey |-> old,
                                   data |-> NoData, ret |-> NoId,
                                   failed |-> NULL, db |-> Db])
     ELSE /\ loc' = [loc EXCEPT ![w] =
               [Idle EXCEPT !.pc = "mig_old", !.kind = "migrate",
                            !.key = new, !.oldKey = old]]
          /\ UNCHANGED runs
  /\ Frame

StoreNext ==
  \/ \E w \in Workers, k \in StoreKeys, f \in EnsureInputs : StartEnsure(w, k, f)
  \/ \E w \in Workers, old \in StoreKeys \cup {NULL},
          new \in StoreKeys \cup {NULL} : StartMigrate(w, old, new)
  \/ \E w \in Workers :
       \/ MigSelectOld(w) \/ MigSelectNew(w) \/ MigUpdate(w)
       \/ EnsureSelect(w) \/ EnsureUpdate(w) \/ EnsureInsert(w)

SyncNext ==
  \/ \E w \in Workers, m \in Messages : StartBasic(w, m)
  \/ \E w \in Workers, m \in Messages, a \in FullArgs : StartFull(w, m, a)
  \/ \E w \in Workers :
       \/ MigSelectOld(w) \/ MigSelectNew(w) \/ MigUpdate(w)
       \/ EnsureSelect(w) \/ EnsureUpdate(w) \/ EnsureInsert(w)
       \/ UpsertBasic(w) \/ UpsertFull(w)
       \/ DeleteAttachments(w) \/ InsertAttachments(w)
       \/ DeleteMainPdf(w) \/ InsertMainPdf(w)

(***************************************************************************)
(* The same round trips when the store answers with an error: what each    *)
(* caller does with the error it gets back                                 *)
(***************************************************************************)
\* the first round trip of the run that failed
FirstFault(w) == IF loc[w].failed = NULL THEN loc[w].pc ELSE loc[w].failed

\* the run goes on at pc although the round trip failed
GoOnAfterFault(w, pc) ==
  /\ loc' = [loc EXCEPT ![w].pc = pc, ![w].failed = FirstFault(w)]
  /\ UNCHANGED runs

\* ensureCaseByManagementNo: selectErr and insertErr are thrown (and rethrown
\* by the catch of Basic and Full); updateErr is logged and existing.id returned
EnsureFails(w) ==
  /\ loc[w].pc \in {"ensure_select", "ensure_insert", "ensure_update"}
  /\ DbUnchanged
  /\ IF loc[w].pc = "ensure_update"
     THEN IF loc[w].kind = "ensure"
          THEN FinishWith(w, "ok", loc[w].existing, FirstFault(w))
          ELSE /\ loc' = [loc EXCEPT ![w].pc = "upsert",
                                     ![w].caseId = loc[w].existing,
                                     ![w].failed = FirstFault(w)]
               /\ UNCHANGED runs
     ELSE FinishWith(w, "threw", NoId, FirstFault(w))
  /\ UNCHANGED started /\ Frame

\* migrateCaseManagementNo: oldErr and newErr are logged and the function
\* returns, updErr is logged; the caller goes on
MigrateFails(w) ==
  /\ loc[w].pc \in {"mig_old", "mig_new", "mig_update"}
  /\ DbUnchanged
  /\ IF loc[w].kind = "migrate" THEN FinishWith(w, "ok", NoId, FirstFault(w))
     ELSE GoOnAfterFault(w, "ensure_select")
  /\ UNCHANGED started /\ Frame

\* the upsert of the message row: msgErr is logged; Basic returns, Full goes on
UpsertFails(w) ==
  /\ loc[w].pc = "upsert"
  /\ DbUnchanged
  /\ IF loc[w].kind = "basic" THEN FinishWith(w, "ok", NoId, FirstFault(w))
     ELSE GoOnAfterFault(w, IF loc[w].data.messageType # "fax" THEN "del_att"
                            ELSE "del_main")
  /\ UNCHANGED started /\ Frame

\* Full, the deletes and inserts of attachment and primary-document rows:
\* delErr, insErr, delMainErr and mainErr are logged and the run goes on
ReplaceFails(w) ==
  /\ loc[w].pc \in {"del_att", "ins_att", "del_main", "ins_main"}
  /\ DbUnchanged
  /\ IF loc[w].pc = "del_att"
     THEN GoOnAfterFault(w, IF Len(loc[w].data.attachments) > 0 THEN "ins_att"
                            ELSE "del_main")
     ELSE IF loc[w].pc = "ins_att" THEN GoOnAfterFault(w, "del_main")
     ELSE IF loc[w].pc = "del_main" /\ FinalMainPdfPath(loc[w]) # NoPath
          THEN GoOnAfterFault(w, "ins_main")
          ELSE FinishWith(w, "ok", NoId, FirstFault(w))
  /\ UNCHANGED started /\ Frame

\* the process ends while a Full run is between a delete and the insert that
\* follows it; the log keeps the round trip the run did not get to
FullStops(w) ==
  /\ loc[w].pc \in {"ins_att", "ins_main"}
  /\ DbUnchanged
  /\ FinishWith(w, "stopped", NoId, loc[w].pc)
  /\ UNCHANGED started /\ Frame

StopNext == SyncNext \/ \E w \in Workers : FullStops(w)

FaultNext ==
  \/ SyncNext
  \/ \E w \in Workers :
       EnsureFails(w) \/ MigrateFails(w) \/ UpsertFails(w) \/ ReplaceFails(w)

(***************************************************************************)
(* POST /gmail/process-batch (processBatch.js): pending messages are       *)
(* selected, leased and processed one by one, one action per round trip    *)
(***************************************************************************)
DEFAULT_LIMIT == 2
MAX_LIMIT == 10

\* Math.min(Number(req.query?.limit || 2), 10)
BatchLimit(q) == IF (IF q = 0 THEN DEFAULT_LIMIT ELSE q) < MAX_LIMIT
                 THEN (IF q = 0 THEN DEFAULT_LIMIT ELSE q) ELSE MAX_LIMIT

\* the limit parameters a request carries (0: none given)
LimitParams == {0, 1}

\* .is("processed_at", null).or("processing_at.is.null,processing_at.lt.<t>")
Eligible(m, lockWindow) ==
  /\ HasRowOf(messages, m)
  /\ batch[m].processed_at = 0
  /\ (batch[m].processing_at = 0 \/ batch[m].processing_at < now - lockWindow)

LOCK_MINUTES == 10

\* .order("received_at", {ascending: false})
RECURSIVE NewestFirst(_)
NewestFirst(ms) ==
  IF ms = {} THEN <<>>
  ELSE LET top == CHOOSE m \in ms :
                    \A o \in ms : messages[o].received_at <= messages[m].received_at
       IN <<top>> \o NewestFirst(ms \ {top})

\* the selected columns of a row
Selected(m) ==
  [id |-> m, case_id |-> messages[m].case_id,
   message_type |-> messages[m].message_type, subject |-> messages[m].subject,
   body_text |-> messages[m].body_text, received_at |-> messages[m].received_at,
   main_pdf_path |-> messages[m].main_pdf_path]

\* mail_rendered/<sanitized id>.pdf in the bucket
RenderedPath(m) == <<"mail_rendered", m, "pdf">>

SetB(b, r) == bloc' = [bloc EXCEPT ![b] = r]

BatchFrame == UNCHANGED <<variant, seqDoc, seqVer, tx, allocLog, doc0, docs,
                          loc, runLimit, workers, master, match, apLog, now,
                          lastHistoryId, histJob>>

\* after one message: the next one of the selection, or the response
BatchAdvance(b, processed) ==
  IF Len(bloc[b].queue) > 0
  THEN /\ SetB(b, [BatchIdle EXCEPT !.pc = "lock", !.queue = bloc[b].queue,
                                    !.processed = processed,
                                    !.limit = bloc[b].limit])
       /\ UNCHANGED runs
  ELSE /\ bloc' = [bloc EXCEPT ![b] = BatchIdle]
       /\ runs' = Append(runs, [kind |-> "batch", msg |-> NULL,
                                args |-> NoArgs, conc |-> NULL,
                                outcome |-> "ok", worker |-> b,
                                processed |-> processed,
                                db |-> [cases |-> cases',
                                        messages |-> messages',
                                        attachments |-> attachments',
                                        mainPdfs |-> mainPdfs']])

\* the select of the pending rows, newest first, at most `limit` of them
BatchSelect(b, q) ==
  /\ b \in DOMAIN bloc /\ bloc[b].pc = "idle" /\ started < runLimit
  /\ started' = started + 1
  /\ LET all  == NewestFirst({m \in Messages : Eligible(m, LOCK_MINUTES)})
         n    == IF Len(all) < BatchLimit(q) THEN Len(all) ELSE BatchLimit(q)
         rows == [i \in 1..n |-> Selected(all[i])]
     IN IF n = 0
        THEN /\ bloc' = bloc
             /\ runs' = Append(runs, [kind |-> "batch", msg |-> NULL,
                                      args |-> NoArgs, conc |-> NULL,
                                      outcome |-> "ok", worker |-> b,
                                      processed |-> 0, db |-> Db])
        ELSE /\ SetB(b, [BatchIdle EXCEPT !.pc = "lock", !.queue = rows,
                                          !.limit = BatchLimit(q)])
             /\ UNCHANGED runs
  /\ DbUnchanged /\ UNCHANGED batch /\ BatchFrame

\* the lease: update({processing_at: now, ocr_status: "processing",
\* ocr_error: null}).eq("id", m.id).is("processed_at", null)
BatchLock(b) ==
  /\ b \in DOMAIN bloc /\ bloc[b].pc = "lock"
  /\ LET m == Head(bloc[b].queue) IN
       /\ batch' = IF batch[m.id].processed_at = 0
                   THEN [batch EXCEPT ![m.id].processing_at = now,
                                      ![m.id].ocr_status = "processing",
                                      ![m.id].ocr_error = NULL]
                   ELSE batch
       /\ SetB(b, [bloc[b] EXCEPT !.pc = "read", !.m = m,
                                  !.queue = Tail(bloc[b].queue),
                                  !.lockedAt = now])
  /\ DbUnchanged /\ UNCHANGED <<runs, started>> /\ BatchFrame

\* fax: the main documents of the message are read, the first one is the
\* primary document; mail: the attachment rows are read, and a row that
\* already has a main_pdf_path keeps it
BatchRead(b) ==
  /\ b \in DOMAIN bloc /\ bloc[b].pc = "read"
  /\ LET m == bloc[b].m
         pdfs == {r.gcs_path : r \in {x \in DOMAIN mainPdfs : x.message_id = m.id}}
         atts == {r.gcs_path : r \in {x \in DOMAIN attachments : x.message_id = m.id}}
     IN IF m.message_type = "fax"
        THEN \E p \in (IF pdfs = {} THEN {NoPath} ELSE pdfs) :
               SetB(b, [bloc[b] EXCEPT !.pc = "ocr", !.attachments = pdfs,
                                       !.mainPdfPath = p])
        ELSE IF m.main_pdf_path = NoPath
             THEN SetB(b, [bloc[b] EXCEPT
                       !.pc = IF m.body_text # <<>> THEN "render" ELSE "detect",
                       !.attachments = atts])
             ELSE SetB(b, [bloc[b] EXCEPT !.pc = "detect", !.attachments = atts,
                                          !.mainPdfPath = m.main_pdf_path])
  /\ DbUnchanged /\ UNCHANGED <<batch, runs, started>> /\ BatchFrame

\* mail without main_pdf_path: the body is rendered and the rendered document
\* is inserted into message_main_pdf_files; a failed rendering is logged
BatchRender(b, ok) ==
  /\ b \in DOMAIN bloc /\ bloc[b].pc = "render"
  /\ LET m == bloc[b].m IN
       IF ok
       THEN /\ mainPdfs' = InsertRows(mainPdfs,
                 <<[case_id |-> m.case_id, message_id |-> m.id,
                    gcs_path |-> RenderedPath(m.id),
                    file_name |-> FileName(RenderedPath(m.id)),
                    mime_type |-> "application/pdf",
                    file_type |-> "mail_rendered", thumbnail_path |-> NoPath]>>)
            /\ SetB(b, [bloc[b] EXCEPT !.pc = "detect",
                                       !.mainPdfPath = RenderedPath(m.id)])
       ELSE /\ mainPdfs' = mainPdfs
            /\ SetB(b, [bloc[b] EXCEPT !.pc = "detect"])
  /\ UNCHANGED <<cases, messages, attachments, batch, runs, started>>
  /\ BatchFrame

\* fax: runOcrForAttachments(attachments)
BatchOcr(b, text) ==
  /\ b \in DOMAIN bloc /\ bloc[b].pc = "ocr"
  /\ SetB(b, [bloc[b] EXCEPT !.pc = "detect", !.ocrText = text])
  /\ DbUnchanged /\ UNCHANGED <<batch, runs, started>> /\ BatchFrame

\* the customer found in the text, and the update of the case when there is
\* a case and a customer
BatchDetect(b, customer) ==
  /\ b \in DOMAIN bloc /\ bloc[b].pc = "detect"
  /\ LET m == bloc[b].m IN
       cases' = IF m.case_id # NoId /\ m.case_id \in DOMAIN cases
                   /\ (customer.id # NULL \/ customer.name # NULL)
                THEN [cases EXCEPT ![m.case_id] =
                        [customer_id |-> customer.id,
                         customer_name |-> customer.name,
                         latest_message_at |-> m.received_at,
                         title |-> m.subject] @@ @]
                ELSE cases
  /\ SetB(b, [bloc[b] EXCEPT !.pc = "update", !.customer = customer])
  /\ UNCHANGED <<messages, attachments, mainPdfs, batch, runs, started>>
  /\ BatchFrame

\* the final update of the message row; its error is thrown to the handler
BatchUpdate(b, ok) ==
  /\ b \in DOMAIN bloc /\ bloc[b].pc = "update"
  /\ LET m == bloc[b].m IN
       IF ok
       THEN /\ messages' = IF HasRowOf(messages, m.id)
                           THEN [messages EXCEPT ![m.id].main_pdf_path =
                                                   bloc[b].mainPdfPath]
                           ELSE messages
            /\ batch' = [batch EXCEPT ![m.id] =
                 [processed_at |-> now, processing_at |-> 0,
                  ocr_status |-> "done", ocr_error |-> batch[m.id].ocr_error,
                  ocr_text |-> bloc[b].ocrText,
                  customer_id |-> bloc[b].customer.id,
                  customer_name |-> bloc[b].customer.name]]
            /\ UNCHANGED <<cases, attachments, mainPdfs>>
            /\ BatchAdvance(b, bloc[b].processed + 1)
       ELSE /\ DbUnchanged /\ UNCHANGED <<batch, runs>>
            /\ SetB(b, [bloc[b] EXCEPT !.pc = "error", !.err = "update failed"])
  /\ UNCHANGED started /\ BatchFrame

\* a handler that gives up the rest of the selection with the failed message
BatchErrorAborts(b) ==
  /\ b \in DOMAIN bloc /\ bloc[b].pc = "error"
  /\ batch' = [batch EXCEPT ![bloc[b].m.id].ocr_status = "error",
                            ![bloc[b].m.id].ocr_error = bloc[b].err,
                            ![bloc[b].m.id].processing_at = 0]
  /\ DbUnchanged
  /\ bloc' = [bloc EXCEPT ![b] = BatchIdle]
  /\ runs' = Append(runs, [kind |-> "batch", msg |-> NULL, args |-> NoArgs,
                           conc |-> NULL, outcome |-> "error", worker |-> b,
                           processed |-> bloc[b].processed, db |-> Db])
  /\ UNCHANGED started /\ BatchFrame

\* the handler of a failed message: the error is recorded, the lease released
BatchError(b) ==
  /\ b \in DOMAIN bloc /\ bloc[b].pc = "error"
  /\ batch' = [batch EXCEPT ![bloc[b].m.id].ocr_status = "error",
                            ![bloc[b].m.id].ocr_error = bloc[b].err,
                            ![bloc[b].m.id].processing_at = 0]
  /\ DbUnchanged
  /\ BatchAdvance(b, bloc[b].processed)
  /\ UNCHANGED started /\ BatchFrame

OcrTexts == {"", "ocr-text"}
Customers == {NoCustomer, Customer1}

\* the outcomes of runOcrForAttachments that are not a text: the deadline of
\* withTimeout passed, or the call to the vision service or the bucket failed
OcrFaults == {"timeout", "io"}

\* the select fails: selErr is thrown to the outer catch, the response is 500
BatchSelectFails(b) ==
  /\ b \in DOMAIN bloc /\ bloc[b].pc = "idle" /\ started < runLimit
  /\ started' = started + 1
  /\ bloc' = bloc
  /\ runs' = Append(runs, [kind |-> "batch", msg |-> NULL, args |-> NoArgs,
                           conc |-> NULL, outcome |-> "error", worker |-> b,
                           processed |-> 0, db |-> Db])
  /\ DbUnchanged /\ UNCHANGED batch /\ BatchFrame

\* the lock update fails: if (lockErr) continue
BatchLockFails(b) ==
  /\ b \in DOMAIN bloc /\ bloc[b].pc = "lock"
  /\ IF Len(bloc[b].queue) > 1
     THEN /\ SetB(b, [bloc[b] EXCEPT !.queue = Tail(bloc[b].queue)])
          /\ UNCHANGED runs
     ELSE /\ bloc' = [bloc EXCEPT ![b] = BatchIdle]
          /\ runs' = Append(runs, [kind |-> "batch", msg |-> NULL,
                                   args |-> NoArgs, conc |-> NULL,
                                   outcome |-> "ok", worker |-> b,
                                   processed |-> bloc[b].processed, db |-> Db])
  /\ DbUnchanged /\ UNCHANGED <<batch, started>> /\ BatchFrame

\* the read of the message's documents fails: pdfErr or attErr is thrown to
\* the handler of the message
BatchReadFails(b) ==
  /\ b \in DOMAIN bloc /\ bloc[b].pc = "read"
  /\ SetB(b, [bloc[b] EXCEPT !.pc = "error", !.err = "read failed"])
  /\ DbUnchanged /\ UNCHANGED <<batch, runs, started>> /\ BatchFrame

\* fax: the OCR of an attachment fails or exceeds its deadline inside
\* runOcrForAttachments, whose catch logs it and goes on to the next
\* attachment: the text returned is what the other attachments gave, here ""
BatchOcrFails(b, why) ==
  /\ b \in DOMAIN bloc /\ bloc[b].pc = "ocr" /\ bloc[b].attachments # {}
  /\ SetB(b, [bloc[b] EXCEPT !.pc = "detect", !.ocrText = "", !.fault = why])
  /\ DbUnchanged /\ UNCHANGED <<batch, runs, started>> /\ BatchFrame

\* time passes
Tick(d) ==
  /\ now + d <= MaxNow
  /\ now' = now + d
  /\ UNCHANGED <<variant, seqDoc, seqVer, tx, allocLog, doc0, docs, cases,
                 messages, attachments, mainPdfs, loc, runs, started, runLimit,
                 workers, batch, bloc, master, match, apLog,
                 lastHistoryId, histJob>>

\* the lock window, and one tick more
TickSteps == {LOCK_MINUTES, LOCK_MINUTES + 1}

BatchNext ==
  \/ \E b \in BatchWorkers, q \in LimitParams : BatchSelect(b, q)
  \/ \E b \in BatchWorkers :
       \/ BatchLock(b) \/ BatchRead(b) \/ BatchError(b)
       \/ BatchSelectFails(b) \/ BatchLockFails(b) \/ BatchReadFails(b)
  \/ \E b \in BatchWorkers, t \in OcrTexts : BatchOcr(b, t)
  \/ \E b \in BatchWorkers, why \in OcrFaults : BatchOcrFails(b, why)
  \/ \E b \in BatchWorkers, ok \in BOOLEAN : BatchRender(b, ok)
  \/ \E b \in BatchWorkers, c \in Customers : BatchDetect(b, c)
  \/ \E b \in BatchWorkers, ok \in BOOLEAN : BatchUpdate(b, ok)
  \/ \E d \in TickSteps : Tick(d)

\* requests of two workers that overlap, no round trip failing but the final
\* update
BatchRaceNext ==
  \/ \E b \in BatchWorkers, q \in LimitParams : BatchSelect(b, q)
  \/ \E b \in BatchWorkers :
       \/ BatchLock(b) \/ BatchRead(b) \/ BatchError(b)
       \/ BatchOcr(b, "ocr-text") \/ BatchRender(b, TRUE)
       \/ BatchDetect(b, Customer1)
  \/ \E b \in BatchWorkers, ok \in BOOLEAN : BatchUpdate(b, ok)
  \/ Tick(LOCK_MINUTES + 1)

\* runs one after another: a sync run or a batch request starts only when
\* nothing else is in flight
NothingInFlight ==
  /\ \A w \in Workers : loc[w].pc = "idle"
  /\ \A b \in DOMAIN bloc : bloc[b].pc = "idle"

SeqStartBasic(w, m) == NothingInFlight /\ StartBasic(w, m)
SeqStartFull(w, m, a) == NothingInFlight /\ StartFull(w, m, a)
SeqBatchSelect(b, q) == NothingInFlight /\ BatchSelect(b, q)

SyncSteps(w) ==
  \/ MigSelectOld(w) \/ MigSelectNew(w) \/ MigUpdate(w)
  \/ EnsureSelect(w) \/ EnsureUpdate(w) \/ EnsureInsert(w)
  \/ UpsertBasic(w) \/ UpsertFull(w)
  \/ DeleteAttachments(w) \/ InsertAttachments(w)
  \/ DeleteMainPdf(w) \/ InsertMainPdf(w)

SeqAllNext ==
  \/ \E w \in Workers, m \in Messages : SeqStartBasic(w, m)
  \/ \E w \in Workers, m \in Messages, a \in FullArgs : SeqStartFull(w, m, a)
  \/ \E w \in Workers : SyncSteps(w)
  \/ \E b \in BatchWorkers, q \in LimitParams : SeqBatchSelect(b, q)
  \/ \E b \in BatchWorkers :
       \/ BatchLock(b) \/ BatchRead(b) \/ BatchError(b)
  \/ \E b \in BatchWorkers, t \in OcrTexts : BatchOcr(b, t)
  \/ \E b \in BatchWorkers, ok \in BOOLEAN : BatchRender(b, ok)
  \/ \E b \in BatchWorkers, c \in Customers : BatchDetect(b, c)
  \/ \E b \in BatchWorkers, ok \in BOOLEAN : BatchUpdate(b, ok)

(***************************************************************************)
(* The customer matchers: detectCustomerFromMaster over the Client Search  *)
(* sheet (three alias classes) and detectCustomer of afterProcess.js over  *)
(* the system_customers_master document (one alias list)                   *)
(***************************************************************************)
\* the separators of an alias cell, /[,\s;]+/ (the full-width comma and slash
\* of the pattern are not among the modelled characters)
Separators == {",", ";"} \cup WhiteSpace

\* String(v).split(/[,\s;]+/).map(x => x.trim()).filter(Boolean)
RECURSIVE SplitAcc(_, _)
SplitAcc(cs, cur) ==
  IF cs = <<>> THEN (IF cur = <<>> THEN <<>> ELSE <<cur>>)
  ELSE IF Head(cs) \in Separators
       THEN (IF cur = <<>> THEN <<>> ELSE <<cur>>) \o SplitAcc(Tail(cs), <<>>)
       ELSE SplitAcc(Tail(cs), Append(cur, Head(cs)))

split(v) == SplitAcc(v, <<>>)

\* String(str).toLowerCase().replace(/\s+/g, "")
normalize(str) == Filter(toLowerCase(str), WhiteSpace, FALSE)

\* normalizeDigits that keeps every character
normalizeDigitsKeepAll(str) == str

\* String(str).replace(/[^\d]/g, "")
normalizeDigits(str) == Filter(str, DigitChars, TRUE)

\* header.indexOf(colName), 0 standing for -1
IndexOf(header, colName) ==
  IF \E i \in DOMAIN header : header[i] = colName
  THEN CHOOSE i \in DOMAIN header :
         header[i] = colName /\ \A j \in 1..(i - 1) : header[j] # colName
  ELSE 0

\* matrix.slice(1).map(row => ({id, name, mailAliases, faxAliases, nameAliases}))
SheetRows(matrix) ==
  LET header == matrix[1]
      colId   == IndexOf(header, "id")
      colName == IndexOf(header, "name")
      colMail == IndexOf(header, "mail_aliases")
      colFax  == IndexOf(header, "fax_aliases")
      colNm   == IndexOf(header, "name_aliases")
  IN [i \in 1..(Len(matrix) - 1) |->
        LET row == matrix[i + 1] IN
        [id |-> row[colId], name |-> row[colName],
         mailAliases |-> IF colMail # 0 THEN split(row[colMail]) ELSE <<>>,
         faxAliases  |-> IF colFax # 0 THEN split(row[colFax]) ELSE <<>>,
         nameAliases |-> IF colNm # 0 THEN split(row[colNm]) ELSE <<>>]]

\* const aNorm = normalize(a); aNorm && textNorm.includes(aNorm)
TextAliasHit(aliases, textNorm) ==
  \E k \in DOMAIN aliases :
    normalize(aliases[k]) # <<>> /\ Includes(textNorm, normalize(aliases[k]))

\* const aDigits = normalizeDigits(a); aDigits && textDigits.includes(aDigits)
DigitAliasHit(aliases, textDigits) ==
  \E k \in DOMAIN aliases :
    /\ normalizeDigits(aliases[k]) # <<>>
    /\ Includes(textDigits, normalizeDigits(aliases[k]))

MailHit(r, sourceText) == TextAliasHit(r.mailAliases, normalize(sourceText))
FaxHit(r, sourceText) == DigitAliasHit(r.faxAliases, normalizeDigits(sourceText))
NameHit(r, sourceText) == TextAliasHit(r.nameAliases, normalize(sourceText))

\* the first element of a non-empty set of indexes
First(idx) == CHOOSE i \in idx : \A j \in idx : i <= j

\* a matcher that returns the first record with a hit of any class
detectCustomerByRecord(sheet, sourceText) ==
  IF ~sheet.exists \/ Len(sheet.matrix) < 2 THEN NoCustomer
  ELSE IF IndexOf(sheet.matrix[1], "id") = 0
            \/ IndexOf(sheet.matrix[1], "name") = 0 THEN NoCustomer
  ELSE LET rows == SheetRows(sheet.matrix)
           any  == {i \in DOMAIN rows :
                      \/ MailHit(rows[i], sourceText)
                      \/ FaxHit(rows[i], sourceText)
                      \/ NameHit(rows[i], sourceText)}
       IN IF any # {} THEN [id |-> rows[First(any)].id,
                            name |-> rows[First(any)].name]
          ELSE NoCustomer

\* detectCustomerFromMaster(sourceText): three passes over the rows, the mail
\* aliases first, then the fax aliases, then the name aliases; null for a
\* missing sheet, a sheet with no data row or no id / name column; an
\* exception is logged and gives null
detectCustomerFromMaster(sheet, sourceText) ==
  IF ~sheet.exists \/ Len(sheet.matrix) < 2 THEN NoCustomer
  ELSE IF IndexOf(sheet.matrix[1], "id") = 0
            \/ IndexOf(sheet.matrix[1], "name") = 0 THEN NoCustomer
  ELSE LET rows == SheetRows(sheet.matrix)
           mail == {i \in DOMAIN rows : MailHit(rows[i], sourceText)}
           fax  == {i \in DOMAIN rows : FaxHit(rows[i], sourceText)}
           name == {i \in DOMAIN rows : NameHit(rows[i], sourceText)}
           hit  == IF mail # {} THEN First(mail)
                   ELSE IF fax # {} THEN First(fax)
                   ELSE IF name # {} THEN First(name) ELSE 0
       IN IF hit # 0 THEN [id |-> rows[hit].id, name |-> rows[hit].name]
          ELSE NoCustomer

\* an alias that is empty once cleaned counted as contained
detectCustomerAnyAlias(doc, sourceText) ==
  IF ~doc.exists THEN NoCustomer
  ELSE LET arr == doc.customers
           searchSource == toLowerCase(Filter(sourceText, WhiteSpace, FALSE))
           hits == {i \in DOMAIN arr :
                      \E k \in DOMAIN arr[i].aliases :
                        LET cleanedAlias ==
                              Filter(toLowerCase(arr[i].aliases[k]),
                                     WhiteSpace, FALSE)
                        IN Includes(searchSource, cleanedAlias)}
       IN IF hits # {} THEN [id |-> arr[First(hits)].id,
                             name |-> arr[First(hits)].name]
          ELSE NoCustomer

\* detectCustomer(firestore, sourceText) of afterProcess.js: the first
\* customer of the document one of whose aliases is contained in the text
detectCustomer(doc, sourceText) ==
  IF ~doc.exists THEN NoCustomer
  ELSE LET arr == doc.customers
           searchSource == toLowerCase(Filter(sourceText, WhiteSpace, FALSE))
           hits == {i \in DOMAIN arr :
                      \E k \in DOMAIN arr[i].aliases :
                        LET cleanedAlias ==
                              Filter(toLowerCase(arr[i].aliases[k]),
                                     WhiteSpace, FALSE)
                        IN cleanedAlias # <<>>
                             /\ Includes(searchSource, cleanedAlias)}
       IN IF hits # {} THEN [id |-> arr[First(hits)].id,
                             name |-> arr[First(hits)].name]
          ELSE NoCustomer

\* the Client Search sheet: the header row and the rows of three customers
Header == <<"id", "name", "mail_aliases", "fax_aliases", "name_aliases">>
HeaderNoId == <<"name", "mail_aliases", "fax_aliases", "name_aliases">>
RowA == <<"a", "A Corp", <<"a","@","x",".","c","o","m">>, <<"0","3","-","1","2","3","4","-","5","6","7","8",","," ","n","/","a">>, <<>>>>
RowB == <<"b", "Acme Inc", <<>>, <<>>, <<"A","c","m","e",";"," ","A","C","M","E"," ","I","n","c">>>>
RowF == <<"f", "Fax Co", <<>>, <<"0","3","-","1","2","3","4","-","5","6","7","8">>, <<>>>>

Sheet(rows) == [exists |-> TRUE, matrix |-> <<Header>> \o rows]

Sheets ==
  { [exists |-> FALSE, matrix |-> <<>>],
    [exists |-> TRUE, matrix |-> <<Header>>],
    [exists |-> TRUE, matrix |-> <<HeaderNoId, Tail(RowA)>>],
    Sheet(<<RowA>>), Sheet(<<RowB>>), Sheet(<<RowF>>),
    Sheet(<<RowA, RowB>>), Sheet(<<RowB, RowA>>), Sheet(<<RowB, RowF>>) }

TextMailAndName == <<"a","@","x",".","c","o","m"," ","A","c","m","e">>
TextName == <<"D","e","a","r"," ","A","c","m","e">>
TextTel == <<"T","E","L",":"," ","0","3","1","2","3","4","5","6","7","8">>
TextOtherTel == <<"0","3","1","2","3","4","5","6","7","9">>
TextSpacedName == <<"A"," ","c","\n","M","E">>
TextFaxAndName == <<"a","c","m","e"," ","0","3"," ","1","2","3","4"," ","5","6","7","8">>
TextNone == <<"h","e","l","l","o">>

MatchTexts == {TextMailAndName, TextName, TextTel, TextOtherTel,
               TextSpacedName, TextFaxAndName, TextNone, <<>>}

MatchFrame == UNCHANGED <<variant, seqDoc, seqVer, tx, allocLog, doc0, docs,
                          cases, messages, attachments, mainPdfs, loc, runs,
                          started, runLimit, workers, batch, bloc, master,
                          apLog, now, lastHistoryId, histJob>>

\* one call of detectCustomerFromMaster with the text
MatchCall ==
  /\ match.pc = "idle"
  /\ match' = [match EXCEPT !.pc = "done",
                            !.result = detectCustomerFromMaster(master.sheet,
                                                                match.text)]
  /\ MatchFrame

\* the next text is handed to the matcher
MatchReset ==
  /\ match.pc = "done"
  /\ \E t \in MatchTexts : match' = [pc |-> "idle", text |-> t,
                                     result |-> NoCustomer]
  /\ MatchFrame

MatchNext == MatchCall \/ MatchReset

(***************************************************************************)
(* The two passes of the callers of the matcher: the head of the candidate *)
(* text first, the whole text when the head gives nothing                  *)
(***************************************************************************)
\* afterProcess.js: slice(0, 100); processBatch.js: slice(0, 200) for a fax,
\* slice(0, 400) for a mail
HEAD_LEN == 100
FAX_HEAD_LEN == 200
MAIL_HEAD_LEN == 400
HeadLens == {HEAD_LEN, FAX_HEAD_LEN, MAIL_HEAD_LEN}

\* the whole text searched, the head not looked at
ResolveFullOnly(sheet, head, full) == detectCustomerFromMaster(sheet, full)

\* (head && (await detectCustomerFromMaster(head)))
\*   || (await detectCustomerFromMaster(full))
ResolveTwoPass(sheet, head, full) ==
  LET first == IF head # <<>> THEN detectCustomerFromMaster(sheet, head)
               ELSE NoCustomer
  IN IF first # NoCustomer THEN first
     ELSE detectCustomerFromMaster(sheet, full)

\* text that no alias is part of, longer than every head
Filler == [i \in 1..MAIL_HEAD_LEN |-> "z"]

TextNameFarMail ==
  <<"A","c","m","e">> \o Filler \o <<"a","@","x",".","c","o","m">>
TextFarMail == Filler \o <<"a","@","x",".","c","o","m">>
TextMailFarName ==
  <<"a","@","x",".","c","o","m">> \o Filler \o <<"A","c","m","e">>

ResolveTexts == {TextNameFarMail, TextFarMail, TextMailFarName,
                 TextMailAndName, TextNone, <<>>}

\* one resolution of the customer for the candidate text, with a head of n
\* characters
ResolveCall(n) ==
  /\ match.pc = "idle"
  /\ match' = [pc |-> "done", text |-> match.text, head |-> n,
               result |-> ResolveTwoPass(master.sheet, Slice(match.text, n),
                                         match.text)]
  /\ MatchFrame

\* the next candidate text
ResolveReset ==
  /\ match.pc = "done"
  /\ \E t \in ResolveTexts : match' = [pc |-> "idle", text |-> t,
                                       result |-> NoCustomer]
  /\ MatchFrame

ResolveNext == (\E n \in HeadLens : ResolveCall(n)) \/ ResolveReset

(***************************************************************************)
(* runAfterProcess (afterProcess.js): the management number, the customer, *)
(* the primary document, the update of the message document, the mirror    *)
(***************************************************************************)
\* the label AKSNO, in any case, starts at position i
LabelAt(text, i) ==
  i + 4 <= Len(text)
    /\ toLowerCase(SubSeq(text, i, i + 4)) = <<"a","k","s","n","o">>

\* \s*: the first position from j on that holds no whitespace
RECURSIVE SkipSpace(_, _)
SkipSpace(text, j) ==
  IF j <= Len(text) /\ text[j] \in WhiteSpace THEN SkipSpace(text, j + 1) ELSE j

\* \s*[:]?\s* after the label: where the code has to start
CodeStart(text, i) ==
  LET j == SkipSpace(text, i + 5)
      k == IF j <= Len(text) /\ text[j] = ":" THEN j + 1 ELSE j
  IN SkipSpace(text, k)

\* /AKSNO\s*[:]?\s*([A-Za-z0-9]{7})/i matches at position i
AksMatchAt(text, i) ==
  /\ LabelAt(text, i)
  /\ CodeStart(text, i) + 6 <= Len(text)
  /\ \A q \in CodeStart(text, i)..(CodeStart(text, i) + 6) : IsAlnum(text[q])

\* extractAksNo7(text): m ? m[1].toUpperCase() : null (<<>> for null)
extractAksNo7(text) ==
  LET at == {i \in 1..Len(text) : AksMatchAt(text, i)} IN
  IF at = {} THEN <<>>
  ELSE toUpperCase(SubSeq(text, CodeStart(text, First(at)),
                          CodeStart(text, First(at)) + 6))

\* the explicit code used whether or not a message has it
ReuseExplicitAlways(aksCandidate, stored) == aksCandidate # <<>>

\* aksCandidate && !existingSnap.empty, existingSnap being the messages
\* where("managementNo", "==", aksCandidate)
ReuseExplicit(aksCandidate, stored) ==
  aksCandidate # <<>> /\ Spell(aksCandidate) \in stored

\* the allocator called before it is known whether the code is reused
CounterAfterAlways(reuse, snap) == ensureManagementNo7(snap).doc

\* if (!managementNo) managementNo = await ensureManagementNo7(firestore):
\* the counter document after the management number has been determined
CounterAfter(reuse, snap) ==
  IF reuse THEN snap ELSE ensureManagementNo7(snap).doc

\* the characters of the stored textPlain and textHtml
PlainChars(data) == <<>>
HtmlChars(data) ==
  IF data.textHtml = <<>> THEN <<>> ELSE <<"<","p",">","h","e","l","l","o">>

\* p.toLowerCase().endsWith(".pdf")
PathFax == <<"gmail", "m2", "fax.pdf">>
IsPdf(p) == p[Len(p)] \in {"a.pdf", "fax.pdf", "main.pdf"}

\* the customer master the deployment reads: the system_customers_master
\* document (afterProcess.js) or the Client Search sheet (part_003)
DetectIn(mst, sourceText) ==
  IF mst.kind = "sheet" THEN detectCustomerFromMaster(mst.sheet, sourceText)
  ELSE detectCustomer(mst.doc, sourceText)

\* the documents of the messages: post-processing has stored ABC1234 on a
\* message that was processed before
AfterDoc(m, done) ==
  [MessageDoc(m, <<PathA>>, done) EXCEPT
     !.managementNo = IF done THEN "ABC1234" ELSE NULL,
     !.attachments = IF m = "m2" THEN <<PathFax>> ELSE @]

\* the customers of the master document and the master sheet
AcmeDoc == [id |-> "b", name |-> "Acme Inc", aliases |-> <<<<"A","c","m","e">>>>]
RivalDoc == [id |-> "r", name |-> "Rival", aliases |-> <<<<" ">>, <<"a","b","c">>>>]

AfterMasters ==
  {[kind |-> "doc", sheet |-> NoMaster.sheet, doc |-> d] :
     d \in {[exists |-> FALSE, customers |-> <<>>],
            [exists |-> TRUE, customers |-> <<>>],
            [exists |-> TRUE, customers |-> <<AcmeDoc>>],
            [exists |-> TRUE, customers |-> <<RivalDoc, AcmeDoc>>]}}
  \cup
  {[kind |-> "sheet", sheet |-> sh, doc |-> NoMaster.doc] :
     sh \in {[exists |-> FALSE, matrix |-> <<>>],
             [exists |-> TRUE, matrix |-> <<Header>>],
             Sheet(<<RowB>>), Sheet(<<RowB, RowA>>)}}

\* texts the OCR returns
OcrCodeAcme == <<"A","K","S","N","O",":","A","B","C","1","2","3","4"," ","A","c","m","e">>
OcrCodeAcmeMail == <<"A","K","S","N","O",":","A","B","C","1","2","3","4"," ","A","c","m","e"," ","a","@","x",".","c","o","m">>
OcrLowerCode == <<"a","k","s","n","o"," ","x","y","z","9","8","7","6"," ","a","c","m","e">>
OcrPlain == <<"h","e","l","l","o">>
AfterTexts == {OcrCodeAcme, OcrCodeAcmeMail, OcrLowerCode, OcrPlain}

\* the texts runAfterProcess can search: the pools and their first HEAD_LEN
\* characters
AfterPools ==
  {Join3(PlainChars(AfterDoc(m, d)), HtmlChars(AfterDoc(m, d)), t) :
     m \in Messages, d \in BOOLEAN, t \in AfterTexts}
  \cup {Slice(t, HEAD_LEN) : t \in AfterTexts}

\* extractAksNo7 and the matcher over these texts, evaluated once
AksTable == [t \in AfterPools |-> extractAksNo7(t)]
DetectTable == [mst \in AfterMasters |-> [t \in AfterPools |-> DetectIn(mst, t)]]

\* head100 first, the whole pool when that finds nothing
DetectTwoPass(mst, head100, bodyPool) ==
  LET first == IF head100 # <<>> THEN DetectTable[mst][head100] ELSE NoCustomer
  IN IF first # NoCustomer THEN first ELSE DetectTable[mst][bodyPool]

\* what runAfterProcess computes for message m from the document, the OCR
\* text, the stored messages, the counter and the master
AfterValues(m, ocr, rendered) ==
  LET data     == docs[m]
      bodyPool == Join3(PlainChars(data), HtmlChars(data), ocr)
      aks      == AksTable[bodyPool]
      stored   == {docs[x].managementNo : x \in Messages} \ {NULL}
      reuse    == ReuseExplicit(aks, stored)
      alloc    == ensureManagementNo7(seqDoc)
      head100  == Slice(IF ocr # <<>> THEN ocr ELSE bodyPool, HEAD_LEN)
      pdfs     == SelectSeq(data.attachments, IsPdf)
      isFax    == data.messageType = "fax"
      mainPdf  == IF isFax THEN (IF pdfs # <<>> THEN pdfs[1] ELSE NoPath)
                  ELSE IF data.textHtml # <<>> /\ rendered THEN PathMain
                  ELSE NoPath
      thumb    == IF mainPdf # NoPath /\ rendered THEN PathThumb ELSE NoPath
  IN [msg |-> m, text |-> bodyPool, ocr |-> ocr, candidate |-> aks,
      stored |-> stored, reused |-> reuse,
      managementNo |-> IF reuse THEN Spell(aks) ELSE Spell(alloc.code),
      customer |-> DetectTwoPass(master, head100, bodyPool),
      mainPdfPath |-> mainPdf, mainPdfThumbnailPath |-> thumb,
      counterBefore |-> seqDoc,
      counterAfter |-> CounterAfter(reuse, seqDoc)]

\* the Full phase is triggered with the resolved values once the message
\* document holds them; it reads the document and migrates the case first
MirrorFull(w, m, a) ==
  loc' = [loc EXCEPT ![w] =
     [Idle EXCEPT !.pc = "mig_old", !.kind = "full", !.msg = m,
                  !.args = a, !.data = docs'[m],
                  !.key = FinalManagementNo(a, docs'[m]), !.oldKey = m]]

\* runAfterProcess({messageId}): the values are computed, the message document
\* is updated with them, and the message is mirrored (the Full phase starts)
AfterProcess(w, m, ocr, rendered) ==
  /\ w \in workers /\ loc[w].pc = "idle" /\ started < runLimit
  /\ started' = started + 1
  /\ LET v == AfterValues(m, ocr, rendered)
         a == [managementNo |-> v.managementNo, customer |-> v.customer,
               mainPdfPath |-> v.mainPdfPath,
               mainPdfThumbnailPath |-> v.mainPdfThumbnailPath,
               fullOcrText |-> Spell(ocr)]
     IN /\ seqDoc' = v.counterAfter
        /\ seqVer' = IF v.reused THEN seqVer ELSE seqVer + 1
        /\ allocLog' = IF v.reused THEN allocLog
                       ELSE Append(allocLog,
                                   [caller |-> 1, read |-> seqDoc,
                                    wrote |-> v.counterAfter,
                                    code |-> ensureManagementNo7(seqDoc).code])
        /\ docs' = [docs EXCEPT ![m] =
                      [@ EXCEPT !.managementNo = v.managementNo,
                                !.customerId = v.customer.id,
                                !.customerName = v.customer.name,
                                !.ocrFullText = Spell(ocr),
                                !.mainPdfPath = v.mainPdfPath]]
        /\ apLog' = Append(apLog, v)
        /\ MirrorFull(w, m, a)
  /\ DbUnchanged
  /\ UNCHANGED <<variant, tx, doc0, runs, runLimit, workers, batch, bloc,
                 master, match, now, lastHistoryId, histJob>>

AfterNext ==
  \/ \E w \in Workers, t \in AfterTexts, rendered \in BOOLEAN :
       AfterProcess(w, "m1", t, rendered)
  \/ \E w \in Workers, t \in AfterTexts : AfterProcess(w, "m2", t, TRUE)
  \/ \E w \in Workers, m \in Messages : StartBasic(w, m)
  \/ \E w \in Workers : SyncSteps(w)

(***************************************************************************)
(* Specifications                                                          *)
(***************************************************************************)
AllocQuiet ==
  /\ variant = "fixed7" /\ seqDoc = NoDoc /\ doc0 = NoDoc /\ seqVer = 0
  /\ tx = [a \in Allocators |-> TxIdle] /\ allocLog = <<>>

SyncQuiet ==
  /\ docs = [m \in Messages |-> MessageDoc(m, <<>>, FALSE)]
  /\ cases = <<>> /\ messages = [m \in Messages |-> NoRow]
  /\ attachments = EmptyBag /\ mainPdfs = EmptyBag
  /\ loc = [w \in Workers |-> Idle] /\ runs = <<>> /\ started = 0
  /\ runLimit = 0 /\ workers = {}
  /\ ExtQuiet

\* concurrent callers of ensureManagementNo7
InitAlloc == AllocInit("fixed7") /\ SyncQuiet
SpecAlloc == InitAlloc /\ [][AllocNext]_vars

\* concurrent callers of ensureManagementNo7, transactions that fail included
InitAllocTx == AllocInit("fixed7") /\ SyncQuiet
SpecAllocTx == InitAllocTx /\ [][AllocTxNext]_vars

\* concurrent callers of either allocator
InitAllocAny == (AllocInit("fixed7") \/ AllocInit("grow")) /\ SyncQuiet
SpecAllocAny == InitAllocAny /\ [][AllocNext]_vars

\* callers of ensureManagementNo7 one after another
SpecAllocSeq == InitAlloc /\ [][AllocSeqNext]_vars

\* concurrent callers of the growing-width ensureManagementNo
InitAllocGrow == AllocInit("grow") /\ SyncQuiet
SpecAllocGrow == InitAllocGrow /\ [][AllocNext]_vars

\* sync runs one after another (a single worker)
InitSeq == AllocQuiet /\ SyncInit({"w1"}, MaxRuns)
SpecSeq == InitSeq /\ [][SyncNext]_vars

\* runs of one worker, a Full run possibly ending between delete and insert
SpecStop == InitSeq /\ [][StopNext]_vars

\* runs of one worker with store round trips that may fail
InitFault == AllocQuiet /\ SyncInit({"w1"}, MaxFaultRuns)
SpecFault == InitFault /\ [][FaultNext]_vars

\* sync runs of two workers, their store calls interleaved
InitSync == AllocQuiet /\ SyncInit(Workers, MaxConcRuns)
SpecSync == InitSync /\ [][SyncNext]_vars

\* direct calls of ensureCaseByManagementNo and migrateCaseManagementNo,
\* one after another
InitStore ==
  /\ AllocQuiet /\ ExtQuiet
  /\ docs = [m \in Messages |-> MessageDoc(m, <<>>, FALSE)]
  /\ cases = <<>> /\ messages = [m \in Messages |-> NoRow]
  /\ attachments = EmptyBag /\ mainPdfs = EmptyBag
  /\ loc = [w \in Workers |-> Idle] /\ runs = <<>> /\ started = 0
  /\ runLimit = MaxCalls /\ workers = {"w1"}
SpecStore == InitStore /\ [][StoreNext]_vars

\* calls of detectCustomerFromMaster on a master sheet, one after another
InitMatch ==
  /\ AllocQuiet
  /\ docs = [m \in Messages |-> MessageDoc(m, <<>>, FALSE)]
  /\ cases = <<>> /\ messages = [m \in Messages |-> NoRow]
  /\ attachments = EmptyBag /\ mainPdfs = EmptyBag
  /\ loc = [w \in Workers |-> Idle] /\ runs = <<>> /\ started = 0
  /\ runLimit = 0 /\ workers = {}
  /\ batch = [m \in Messages |-> NoBatchCols]
  /\ bloc = [b \in {} |-> BatchIdle]
  /\ apLog = <<>> /\ now = 1
  /\ HistoryQuiet
  /\ master \in {[NoMaster EXCEPT !.sheet = sh] : sh \in Sheets}
  /\ match \in {[NoMatch EXCEPT !.text = t] : t \in MatchTexts}
SpecMatch == InitMatch /\ [][MatchNext]_vars

\* resolutions of the customer, one candidate text after another
InitResolve ==
  /\ AllocQuiet
  /\ docs = [m \in Messages |-> MessageDoc(m, <<>>, FALSE)]
  /\ cases = <<>> /\ messages = [m \in Messages |-> NoRow]
  /\ attachments = EmptyBag /\ mainPdfs = EmptyBag
  /\ loc = [w \in Workers |-> Idle] /\ runs = <<>> /\ started = 0
  /\ runLimit = 0 /\ workers = {}
  /\ batch = [m \in Messages |-> NoBatchCols]
  /\ bloc = [b \in {} |-> BatchIdle]
  /\ apLog = <<>> /\ now = 1
  /\ HistoryQuiet
  /\ master \in {[NoMaster EXCEPT !.sheet = sh] : sh \in Sheets}
  /\ match \in {[NoMatch EXCEPT !.text = t] : t \in ResolveTexts}
SpecResolve == InitResolve /\ [][ResolveNext]_vars

\* runAfterProcess calls one after another, each followed by its mirror run
InitAfter ==
  /\ AllocQuiet
  /\ docs \in {[m \in Messages |-> AfterDoc(m, m \in done)] :
                 done \in {{}, {"m1"}}}
  /\ cases = <<>> /\ messages = [m \in Messages |-> NoRow]
  /\ attachments = EmptyBag /\ mainPdfs = EmptyBag
  /\ loc = [w \in Workers |-> Idle] /\ runs = <<>> /\ started = 0
  /\ runLimit = MaxAfterRuns /\ workers = {"w1"}
  /\ batch = [m \in Messages |-> NoBatchCols]
  /\ bloc = [b \in {} |-> BatchIdle]
  /\ apLog = <<>> /\ now = 1
  /\ HistoryQuiet
  /\ master \in AfterMasters
  /\ match = NoMatch
SpecAfter == InitAfter /\ [][AfterNext]_vars

\* sync runs and process-batch requests one after another
InitSeqAll == AllocQuiet /\ ExtInit({"b1"}) /\ MirrorInit({"w1"}, MaxRuns)
SpecSeqAll == InitSeqAll /\ [][SeqAllNext]_vars

\* process-batch requests on the store as the Basic sync of both messages and
\* the ingestion of the fax's document left it, nothing processed yet
Ingested(m, i) == [Idle EXCEPT !.kind = "basic", !.msg = m, !.key = m,
                               !.data = MessageDoc(m, <<>>, FALSE),
                               !.caseId = i]

InitBatchStore ==
  /\ AllocQuiet
  /\ docs = [m \in Messages |-> MessageDoc(m, <<>>, FALSE)]
  /\ cases = <<CaseFields(Ingested("m1", 1)) @@ [id |-> 1, management_no |-> "m1"],
               CaseFields(Ingested("m2", 2)) @@ [id |-> 2, management_no |-> "m2"]>>
  /\ messages = [m \in Messages |->
                   BasicPayload(Ingested(m, IF m = "m1" THEN 1 ELSE 2))]
  /\ attachments = EmptyBag
  /\ mainPdfs = RowsBag(<<[case_id |-> 2, message_id |-> "m2",
                           gcs_path |-> PathFax, file_name |-> FileName(PathFax),
                           mime_type |-> "application/pdf",
                           file_type |-> "fax_original",
                           thumbnail_path |-> NoPath]>>)
  /\ loc = [w \in Workers |-> Idle]
  /\ runs = <<>> /\ started = 0 /\ runLimit = MaxBatchRuns /\ workers = {}
  /\ batch = [m \in Messages |-> [NoBatchCols EXCEPT !.ocr_status = "pending"]]
  /\ master = NoMaster /\ match = NoMatch /\ apLog = <<>> /\ now = 1
  /\ HistoryQuiet

\* one batch worker: requests one after another
InitBatchOne == InitBatchStore /\ bloc = [b \in {"b1"} |-> BatchIdle]
SpecBatchOne == InitBatchOne /\ [][BatchNext]_vars

\* requests without end: the history of the requests, which no request
\* reads, is dropped so that requests can go on being counted
ForgetHistory ==
  /\ started # 0
  /\ \A b \in DOMAIN bloc : bloc[b].pc = "idle"
  /\ runs' = <<>> /\ started' = 0
  /\ UNCHANGED <<variant, seqDoc, seqVer, tx, allocLog, doc0, docs, cases,
                 messages, attachments, mainPdfs, loc, runLimit, workers,
                 batch, bloc, master, match, apLog, now,
                 lastHistoryId, histJob>>

\* the trigger of the route: a request arrives
BatchTrigger == \E q \in LimitParams : BatchSelect("b1", q)

\* the request in flight takes its next step; any round trip may fail
BatchStep ==
  \/ BatchLock("b1") \/ BatchRead("b1") \/ BatchError("b1")
  \/ BatchLockFails("b1") \/ BatchReadFails("b1")
  \/ \E t \in OcrTexts : BatchOcr("b1", t)
  \/ \E ok \in BOOLEAN :
       (ok => BagCardinality(mainPdfs) < MaxPdfRows) /\ BatchRender("b1", ok)
  \/ \E c \in Customers : BatchDetect("b1", c)
  \/ \E ok \in BOOLEAN : BatchUpdate("b1", ok)

BatchLiveNext == BatchTrigger \/ BatchStep \/ ForgetHistory

\* the scheduler keeps firing the trigger and a request in flight keeps
\* running; nothing is assumed about which round trips succeed
SpecBatchLive ==
  /\ InitBatchOne /\ [][BatchLiveNext]_vars
  /\ WF_vars(BatchTrigger) /\ WF_vars(BatchStep) /\ WF_vars(ForgetHistory)

\* two batch workers: requests that overlap
InitBatch == InitBatchStore /\ bloc = [b \in BatchWorkers |-> BatchIdle]
SpecBatch == InitBatch /\ [][BatchRaceNext]_vars

Spec == SpecSync

(***************************************************************************)
(* Allocator properties                                                    *)
(***************************************************************************)
Codes == [i \in DOMAIN allocLog |-> allocLog[i].code]

\* the width an allocation read: the stored one, else the allocator's default
WidthRead(snap) ==
  IF snap.exists /\ snap.digits # 0 THEN snap.digits
  ELSE IF variant = "fixed7" THEN FIXED_DIGITS ELSE DEFAULT_DIGITS

\* the allocation found value + 1 >= 16^width
Crossed(e) == CurrentOf(e.read) + 1 >= Pow16(WidthRead(e.read))

\* A counter holding value v at width d has got there by v allocations, which
\* returned the codes of 1..v at that width: c is one of them.
IssuedBeforeStart(c) ==
  doc0.exists /\ Len(c) = doc0.digits /\ ParseHex(c) \in 1..doc0.v

PairwiseDistinct(seq) ==
  \A i, j \in DOMAIN seq : i # j => seq[i] # seq[j]

\* C2: no allocate() call returns a code that an earlier call returned, also
\* across the point where value + 1 reaches 16^width.
C2_NoCodeReissued ==
  /\ PairwiseDistinct(Codes)
  /\ \A i \in DOMAIN Codes : ~IssuedBeforeStart(Codes[i])

\* C3 as stated: under concurrent callers the codes are pairwise distinct and
\* the stored value has advanced by exactly the number of committed calls.
C3_AdvancesByCommitCount ==
  /\ PairwiseDistinct(Codes)
  /\ CurrentOf(seqDoc) = CurrentOf(doc0) + Len(allocLog)

\* C3 as amended: every commit is one read-modify-write on the value the
\* previous commit left (no lost update); while no call finds
\* value + 1 >= 16^width the codes are pairwise distinct and the stored value
\* has advanced by exactly the number of committed calls.
C3_Linearized ==
  /\ \A i \in DOMAIN allocLog :
       allocLog[i].read = IF i = 1 THEN doc0 ELSE allocLog[i - 1].wrote
  /\ seqDoc = IF allocLog = <<>> THEN doc0 ELSE allocLog[Len(allocLog)].wrote
  /\ (\A i \in DOMAIN allocLog : ~Crossed(allocLog[i]))
       => /\ PairwiseDistinct(Codes)
          /\ CurrentOf(seqDoc) = CurrentOf(doc0) + Len(allocLog)

\* two callers read the same counter value; the loser retried and committed
C3_ContendedCommit ==
  /\ Len(allocLog) >= 2
  /\ \E a \in Allocators : tx[a].pc = "done" /\ tx[a].tries >= 2

\* C4: an allocation that reads {value, width} with value + 1 >= 16^width
\* persists width + 1 and value 1 and returns 1 padded to width + 1 digits;
\* otherwise it persists value + 1 and leaves the width unchanged.
C4_GrowsAtCapacity ==
  \A i \in DOMAIN allocLog :
    LET e == allocLog[i]
        w == WidthRead(e.read)
    IN IF Crossed(e)
       THEN e.wrote = MkDoc(1, w + 1) /\ e.code = PadStart(ToHex(1), w + 1)
       ELSE e.wrote = MkDoc(CurrentOf(e.read) + 1, w)

\* C5 as stated: the codes of N sequential allocations are pairwise distinct
\* and, decoded as hexadecimal, strictly increasing in call order.
C5_StrictlyIncreasing ==
  \A i, j \in DOMAIN Codes :
    i < j => Codes[i] # Codes[j] /\ ParseHex(Codes[i]) < ParseHex(Codes[j])

\* C5 as amended: the codes of sequential allocations none of which finds
\* value + 1 >= 16^width are pairwise distinct and strictly increasing.
C5_IncreasingBelowCapacity ==
  \A i, j \in DOMAIN Codes :
    (i < j /\ \A k \in (i + 1)..j : ~Crossed(allocLog[k]))
      => Codes[i] # Codes[j] /\ ParseHex(Codes[i]) < ParseHex(Codes[j])

\* three sequential allocations below the capacity
C5_ThreeBelowCapacity ==
  /\ Len(allocLog) >= 3
  /\ \A k \in DOMAIN allocLog : ~Crossed(allocLog[k])

(***************************************************************************)
(* Mirror properties                                                       *)
(***************************************************************************)
AllIdle == \A w \in Workers : loc[w].pc = "idle"

HasRow(m) == messages[m] # NoRow

\* the management number of the case the message row references
CaseKeyOf(m) == cases[messages[m].case_id].management_no

\* the message's rows of a table, and how many of them hold path p
RowsOf(table, m) == [r \in {x \in DOMAIN table : x.message_id = m} |-> table[r]]
PathCount(table, m, p) ==
  BagCardinality([r \in {x \in DOMAIN table :
                           x.message_id = m /\ x.gcs_path = p} |-> table[r]])

Occurrences(list, p) == Cardinality({i \in DOMAIN list : list[i] = p})

Paths == {PathA, PathB, PathMain, PathThumb}

\* C1: each management number is the management_no of at most one case row,
\* also after two ensureCaseByManagementNo calls for the same unseen key ran
\* concurrently.
C1_OneCasePerManagementNo ==
  \A i, j \in DOMAIN cases :
    cases[i].management_no = cases[j].management_no => i = j

\* the sync state of a message, read off its row
SyncRank(m) ==
  IF ~HasRow(m) THEN 0
  ELSE IF CaseKeyOf(m) = m \/ messages[m].body_type = "fax_basic" THEN 1
  ELSE 2

\* C6: the sync state only moves forward; once the Full phase has written the
\* finalized row no later run returns it to provisional values.
C6_NoRegression ==
  [][\A m \in Messages : SyncRank(m)' >= SyncRank(m)]_vars

\* C7: when Full started while Basic was still running, then once both have
\* completed the message row references the case keyed by the final number
\* and carries the Full fields, and no provisional case row remains.
C7_FullDuringBasicSafe ==
  \A m \in Messages :
    (/\ AllIdle /\ Len(runs) = 2
     /\ \A i \in 1..2 : runs[i].msg = m /\ runs[i].outcome = "ok"
     /\ \E i \in 1..2 : runs[i].kind = "basic"
     /\ \E i \in 1..2 : runs[i].kind = "full" /\ runs[i].conc = "basic")
    => LET f == CHOOSE i \in 1..2 : runs[i].kind = "full"
           l == [Idle EXCEPT !.kind = "full", !.msg = m,
                             !.args = runs[f].args, !.data = docs[m]]
       IN /\ HasRow(m)
          /\ CaseKeyOf(m) = FinalManagementNo(runs[f].args, docs[m])
          /\ messages[m].body_type = FullBodyType(docs[m])
          /\ messages[m].main_pdf_path = FinalMainPdfPath(l)
          /\ \A i \in DOMAIN cases : cases[i].management_no # m

SameRun(r1, r2) ==
  r1.kind = r2.kind /\ r1.msg = r2.msg /\ r1.args = r2.args

\* C8: a phase run again directly after a completed run of the same phase
\* with the same inputs leaves cases, messages, attachment and
\* primary-document rows exactly as the first run left them.
C8_Idempotent ==
  \A i \in 2..Len(runs) :
    (SameRun(runs[i], runs[i - 1]) /\ runs[i - 1].outcome = "ok")
      => runs[i].outcome = "ok" /\ runs[i].db = runs[i - 1].db

\* Full ran three times in a row for the mail message, with attachments and a
\* primary document
C8_FullRepeated ==
  /\ Len(runs) = 3
  /\ \A i \in 1..3 : /\ runs[i].kind = "full" /\ runs[i].msg = "m1"
                     /\ runs[i].outcome = "ok" /\ runs[i].args = runs[1].args
  /\ docs["m1"].attachments # <<>>
  /\ attachments # EmptyBag /\ mainPdfs # EmptyBag

\* the last two completed runs are Full runs for mail message m
TwoFullRuns(m) ==
  /\ AllIdle /\ Len(runs) >= 2
  /\ docs[m].messageType = "mail"
  /\ \A i \in {Len(runs) - 1, Len(runs)} :
       runs[i].kind = "full" /\ runs[i].msg = m /\ runs[i].outcome = "ok"

\* C9 as stated: after two consecutive Full runs for a mail message there is
\* exactly one attachment row per path of its attachment list.
C9_OneRowPerPath ==
  \A m \in Messages :
    TwoFullRuns(m) =>
      \A p \in Paths :
        PathCount(attachments, m, p) =
          IF Occurrences(docs[m].attachments, p) > 0 THEN 1 ELSE 0

\* C9 as amended: after two consecutive Full runs for a mail message there is
\* exactly one attachment row per entry of its attachment list (a path listed
\* k times has k rows) and no row for a path that is not in the list.
C9_OneRowPerEntry ==
  \A m \in Messages :
    TwoFullRuns(m) =>
      \A p \in Paths :
        PathCount(attachments, m, p) = Occurrences(docs[m].attachments, p)

\* two consecutive Full runs for a mail message that has attachments
C9_TwoFullRunsDone ==
  \E m \in Messages : TwoFullRuns(m) /\ Len(docs[m].attachments) = 2

\* C10: after two Full runs for the same mail message whose store calls
\* interleaved, there is exactly one attachment row per attachment and at
\* most one primary-document row.
C10_ConcurrentFullConsistent ==
  \A m \in Messages :
    (TwoFullRuns(m) /\ Len(runs) = 2 /\ \E i \in 1..2 : runs[i].conc = "full")
    => /\ \A p \in Paths :
            PathCount(attachments, m, p) = Occurrences(docs[m].attachments, p)
       /\ BagCardinality(RowsOf(mainPdfs, m)) <= 1

(***************************************************************************)
(* Primary documents under sync runs and process-batch requests            *)
(***************************************************************************)
\* C11: in every state reached after a sequence of completed sync runs and
\* process-batch requests (a request retried after a failure included), each
\* message has at most one primary-document row.
C11_AtMostOnePrimaryDocument ==
  NothingInFlight =>
    \A m \in Messages : BagCardinality(RowsOf(mainPdfs, m)) <= 1

(***************************************************************************)
(* ensureCaseByManagementNo and migrateCaseManagementNo as functions of    *)
(* the store: runs[i].db is the store a call left, PreDb(i) the one it     *)
(* found                                                                   *)
(***************************************************************************)
EmptyDb == [cases |-> <<>>, messages |-> [m \in Messages |-> NoRow],
            attachments |-> EmptyBag, mainPdfs |-> EmptyBag]

PreDb(i) == IF i = 1 THEN EmptyDb ELSE runs[i - 1].db

\* the ids of the case rows of db kept under key
CasesUnder(db, key) == {c \in DOMAIN db.cases : db.cases[c].management_no = key}

IsCall(i, kind) == runs[i].kind = kind

\* C12: migrateCaseManagementNo(oldKey, newKey) called when a case already
\* exists under newKey changes no row (the case under oldKey keeps its key
\* and fields, the case under newKey is untouched, nothing is merged or
\* deleted) and returns without an error.
C12_CollisionLeavesStore ==
  \A i \in DOMAIN runs :
    (IsCall(i, "migrate") /\ CasesUnder(PreDb(i), runs[i].key) # {})
      => runs[i].db = PreDb(i) /\ runs[i].outcome = "ok"

\* a migrate call found a case under each of its two different keys
C12_CollisionHappened ==
  \E i \in DOMAIN runs :
    /\ IsCall(i, "migrate") /\ runs[i].oldKey # runs[i].key
    /\ CasesUnder(PreDb(i), runs[i].key) # {}
    /\ CasesUnder(PreDb(i), runs[i].oldKey) # {}

\* C13: migrateCaseManagementNo(oldKey, newKey) with oldKey # newKey, a case
\* under oldKey and none under newKey changes only the management_no of that
\* one case row to newKey (same id, same other fields, same number of rows,
\* no case keyed by oldKey afterwards); with oldKey = newKey or no case under
\* oldKey it changes nothing.
C13_RekeysInPlace ==
  \A i \in DOMAIN runs :
    IsCall(i, "migrate") =>
      LET pre  == PreDb(i)
          post == runs[i].db
          old  == runs[i].oldKey
          new  == runs[i].key
      IN /\ (old # new /\ CasesUnder(pre, old) # {} /\ CasesUnder(pre, new) = {}
               /\ new # NULL)
             => /\ \E c \in CasesUnder(pre, old) :
                     post.cases = [pre.cases EXCEPT ![c].management_no = new]
                /\ CasesUnder(post, old) = {}
                /\ Len(post.cases) = Len(pre.cases)
                /\ [post EXCEPT !.cases = pre.cases] = pre
         /\ (old = new \/ CasesUnder(pre, old) = {}) => post = pre

\* a migrate call re-keyed a case that has a customer, and another migrate
\* call had equal keys or no case under its old key
C13_RekeyHappened ==
  /\ \E i \in DOMAIN runs :
       /\ IsCall(i, "migrate") /\ runs[i].oldKey # runs[i].key
       /\ \E c \in CasesUnder(PreDb(i), runs[i].oldKey) :
            /\ PreDb(i).cases[c].customer_id # NULL
            /\ runs[i].db.cases[c].management_no = runs[i].key
  /\ \E i \in DOMAIN runs :
       /\ IsCall(i, "migrate")
       /\ (runs[i].oldKey = runs[i].key
             \/ CasesUnder(PreDb(i), runs[i].oldKey) = {})

\* C14: two ensureCaseByManagementNo calls with the same key, one directly
\* after the other, return the same case id, create one case row only, and
\* leave that row with the second call's customer id, customer name, title
\* and latest-message-at.
C14_SecondEnsureOverwrites ==
  \A i \in 2..Len(runs) :
    (IsCall(i, "ensure") /\ IsCall(i - 1, "ensure")
       /\ runs[i].key = runs[i - 1].key)
    => LET post == runs[i].db
           f    == runs[i].data
       IN /\ runs[i].ret = runs[i - 1].ret
          /\ Len(post.cases) = Len(runs[i - 1].db.cases)
          /\ CasesUnder(post, runs[i].key) = {runs[i].ret}
          /\ post.cases[runs[i].ret] =
               [id |-> runs[i].ret, management_no |-> runs[i].key,
                customer_id |-> f.customerId, customer_name |-> f.customerName,
                title |-> f.subject, latest_message_at |-> f.receivedAt]

\* two ensure calls in a row for an unseen key, with different field values
C14_TwoEnsureCalls ==
  \E i \in 2..Len(runs) :
    /\ IsCall(i, "ensure") /\ IsCall(i - 1, "ensure")
    /\ runs[i].key = runs[i - 1].key /\ runs[i].data # runs[i - 1].data
    /\ CasesUnder(PreDb(i - 1), runs[i].key) = {}

(***************************************************************************)
(* The key of a case row over Basic and Full runs                          *)
(***************************************************************************)
\* C15: over any sequence of Basic and Full runs and re-runs a case row's
\* management_no changes only from a message id (provisional key) to a final
\* management number, hence at most once, a final number never being changed
\* again; and at every moment each message row references one existing case.
C15_KeyChangesOnce ==
  [][/\ \A c \in DOMAIN cases :
          cases'[c].management_no # cases[c].management_no
            => /\ cases[c].management_no \in Messages
               /\ cases'[c].management_no \notin Messages
     /\ \A m \in Messages :
          HasRowOf(messages', m) => messages'[m].case_id \in DOMAIN cases']_vars

\* Basic, Full and a Full re-run with another number for the same message:
\* the case Basic created was re-keyed by the first Full run and kept that key
C15_RekeyedThenRerun ==
  /\ Len(runs) = 3
  /\ runs[1].kind = "basic" /\ runs[2].kind = "full" /\ runs[3].kind = "full"
  /\ \A i \in 1..3 : runs[i].msg = runs[1].msg /\ runs[i].outcome = "ok"
  /\ runs[2].key # runs[3].key
  /\ runs[1].db.cases[1].management_no = runs[1].msg
  /\ runs[2].db.cases[1].management_no = runs[2].key
  /\ cases[1].management_no = runs[2].key

(***************************************************************************)
(* The customer matcher                                                    *)
(***************************************************************************)
\* normText: lowercase, all whitespace stripped
NormText(t) == toLowerCase(SelectSeq(t, LAMBDA c : c \notin WhiteSpace))

\* normDigits: every non-digit character stripped
NormDigits(t) == SelectSeq(t, LAMBDA c : c \in DigitChars)

\* a is non-empty and a contiguous part of t
Contained(a, t) ==
  a # <<>> /\ \E i \in 1..(Len(t) - Len(a) + 1) : SubSeq(t, i, i + Len(a) - 1) = a

\* the records of the master list, none when the list is missing or unusable
RecordsOf(sheet) ==
  IF sheet.exists /\ Len(sheet.matrix) >= 2
     /\ "id" \in {sheet.matrix[1][k] : k \in DOMAIN sheet.matrix[1]}
  THEN SheetRows(sheet.matrix) ELSE <<>>

\* the same, worked out once for every master list of the model
RecordsTable ==
  [sheet \in Sheets \cup {NoMaster.sheet} \cup {mst.sheet : mst \in AfterMasters}
     |-> RecordsOf(sheet)]

Records == RecordsTable[master.sheet]

MailRecs(t) ==
  LET nt == NormText(t) IN
  {i \in DOMAIN Records : \E k \in DOMAIN Records[i].mailAliases :
     Contained(NormText(Records[i].mailAliases[k]), nt)}
FaxRecs(t) ==
  LET nd == NormDigits(t) IN
  {i \in DOMAIN Records : \E k \in DOMAIN Records[i].faxAliases :
     Contained(NormDigits(Records[i].faxAliases[k]), nd)}
NameRecs(t) ==
  LET nt == NormText(t) IN
  {i \in DOMAIN Records : \E k \in DOMAIN Records[i].nameAliases :
     Contained(NormText(Records[i].nameAliases[k]), nt)}

CustomerOf(i) == [id |-> Records[i].id, name |-> Records[i].name]

C19_FaxAliasByDigits ==
  match.pc = "done" =>
    /\ (MailRecs(match.text) = {} /\ NameRecs(match.text) = {})
         => (match.result # NoCustomer
               <=> \E i \in DOMAIN Records :
                     \E k \in DOMAIN Records[i].faxAliases :
                       LET d == NormDigits(Records[i].faxAliases[k]) IN
                         /\ d # <<>>
                         /\ \E p \in 0..(Len(NormDigits(match.text)) - Len(d)) :
                              SubSeq(NormDigits(match.text), p + 1, p + Len(d)) = d)
    /\ (master.sheet = Sheet(<<RowF>>) /\ match.text = TextTel)
         => match.result = [id |-> "f", name |-> "Fax Co"]
    /\ (master.sheet = Sheet(<<RowF>>) /\ match.text = TextOtherTel)
         => match.result = NoCustomer

\* the alias 03-1234-5678 matched the text "TEL: 0312345678"
C19_TelMatched ==
  /\ match.pc = "done"
  /\ master.sheet = Sheet(<<RowF>>)
  /\ match.text = TextTel
  /\ match.result.id = "f"

(***************************************************************************)
(* runAfterProcess: explicit codes, the customer, the mirrored rows        *)
(***************************************************************************)
\* the explicit code a logged call found in its text, as the stored string
ExplicitCode(e) == Spell(e.candidate)

\* the code allocate() issues from the counter the call found
FreshCode(e) == Spell(ensureManagementNo7(e.counterBefore).code)

\* the last logged call is over: its mirror run is the last finished run
AfterDone ==
  /\ apLog # <<>> /\ runs # <<>>
  /\ \A w \in workers : loc[w].pc = "idle"
  /\ runs[Len(runs)].kind = "full"
  /\ Cardinality({i \in DOMAIN runs : runs[i].kind = "full"}) = Len(apLog)

LastCall == apLog[Len(apLog)]

\* the case row the message row of m references
CaseOfMessage(m) == cases[messages[m].case_id]

Acme == [id |-> "b", name |-> "Acme Inc"]
AcmeAlias == <<"A","c","m","e">>

\* the customers of the master document with an alias contained in the text
DocRecs(t) ==
  IF master.doc.exists
  THEN LET nt == NormText(t) IN
       {i \in DOMAIN master.doc.customers :
          \E k \in DOMAIN master.doc.customers[i].aliases :
            Contained(NormText(master.doc.customers[i].aliases[k]), nt)}
  ELSE {}

AcmeRegistered ==
  IF master.kind = "sheet"
  THEN \E i \in DOMAIN Records : \E k \in DOMAIN Records[i].nameAliases :
         Records[i].nameAliases[k] = AcmeAlias /\ CustomerOf(i) = Acme
  ELSE master.doc.exists
         /\ \E i \in DOMAIN master.doc.customers :
              master.doc.customers[i] = AcmeDoc

\* the records with an alias of any class contained in the text
AliasRecs(t) ==
  IF master.kind = "sheet" THEN MailRecs(t) \cup FaxRecs(t) \cup NameRecs(t)
  ELSE DocRecs(t)

\* Acme's name alias is the hit with the highest priority
AcmeFirst(t) ==
  IF master.kind = "sheet"
  THEN MailRecs(t) = {} /\ FaxRecs(t) = {} /\ NameRecs(t) # {}
         /\ CustomerOf(First(NameRecs(t))) = Acme
  ELSE DocRecs(t) # {} /\ master.doc.customers[First(DocRecs(t))] = AcmeDoc

\* the last call was for a fax whose OCR text holds a code token and "Acme"
FaxWithCodeAndAcme ==
  /\ AfterDone
  /\ docs[LastCall.msg].messageType = "fax"
  /\ LastCall.candidate # <<>>
  /\ Contained(AcmeAlias, LastCall.ocr)
  /\ AcmeRegistered

\* the rows and values the claim expects at the end
EndsWithCodeAcmeFaxOcr ==
  /\ LastCall.managementNo = ExplicitCode(LastCall)
  /\ LastCall.counterAfter = LastCall.counterBefore
  /\ docs[LastCall.msg].managementNo = ExplicitCode(LastCall)
  /\ LastCall.customer = Acme
  /\ docs[LastCall.msg].customerId = Acme.id
  /\ docs[LastCall.msg].customerName = Acme.name
  /\ HasRowOf(messages, LastCall.msg)
  /\ messages[LastCall.msg].body_type = "fax_ocr"
  /\ CaseOfMessage(LastCall.msg).management_no = ExplicitCode(LastCall)
  /\ CaseOfMessage(LastCall.msg).customer_id = Acme.id
  /\ CaseOfMessage(LastCall.msg).customer_name = Acme.name

CommitsOf(a) == {i \in DOMAIN allocLog : allocLog[i].caller = a}

\* the counter document the i-th committed allocation found
CounterBefore(i) == IF i = 1 THEN doc0 ELSE allocLog[i - 1].wrote

\* C25: a call that returned a code has committed exactly one transaction,
\* which wrote the counter and returned that code; a call whose transaction
\* failed, or is still open, has written nothing and has no code; the counter
\* is the initial one advanced once per committed call, however many attempts
\* the calls needed.
C25_CommitOrNothing ==
  /\ \A a \in Allocators :
       IF tx[a].pc = "done"
       THEN /\ tx[a].code # <<>>
            /\ Cardinality(CommitsOf(a)) = 1
            /\ \A i \in CommitsOf(a) : allocLog[i].code = tx[a].code
       ELSE CommitsOf(a) = {} /\ tx[a].code = <<>>
  /\ seqDoc = IF allocLog = <<>> THEN doc0 ELSE allocLog[Len(allocLog)].wrote
  /\ seqVer = Len(allocLog)
  /\ \A i \in DOMAIN allocLog :
       /\ allocLog[i].read = CounterBefore(i)
       /\ allocLog[i].wrote = ensureManagementNo7(CounterBefore(i)).doc
       /\ allocLog[i].code = ensureManagementNo7(CounterBefore(i)).code

\* one call committed after a retry, another call failed
C25_RetriedAndFailed ==
  /\ \E a \in Allocators : tx[a].pc = "done" /\ tx[a].tries >= 2
  /\ \E a \in Allocators : tx[a].pc = "failed" /\ tx[a].tries >= 1
  /\ Len(allocLog) = 2

\* C26: a step changes the counter document only as the allocation of a
\* runAfterProcess call that did not reuse an explicit code; the steps of Basic
\* and Full runs (ensureCaseByManagementNo and migrateCaseManagementNo among
\* them) and a call that reuses an explicit code leave the counter as it is.
C26_CounterOnlyInAllocate ==
  [][/\ (seqDoc' # seqDoc \/ seqVer' # seqVer)
         => /\ Len(allocLog') = Len(allocLog) + 1
            /\ allocLog'[Len(allocLog')].read = seqDoc
            /\ allocLog'[Len(allocLog')].wrote = seqDoc'
            /\ Len(apLog') = Len(apLog) + 1
            /\ apLog'[Len(apLog')].managementNo = FreshCode(apLog'[Len(apLog')])
     /\ (cases' # cases \/ messages' # messages \/ attachments' # attachments
           \/ mainPdfs' # mainPdfs \/ runs' # runs)
         => seqDoc' = seqDoc /\ allocLog' = allocLog
     /\ (Len(apLog') = Len(apLog) + 1
           /\ apLog'[Len(apLog')].candidate # <<>>
           /\ ExplicitCode(apLog'[Len(apLog')]) \in apLog'[Len(apLog')].stored)
         => seqDoc' = seqDoc /\ allocLog' = allocLog
    ]_vars

\* one call allocated, a later call reused an explicit code, and both were
\* mirrored: the counter is the one the allocation wrote
C26_AllocatedThenReused ==
  /\ AfterDone /\ Len(apLog) = 2
  /\ apLog[1].managementNo = FreshCode(apLog[1])
  /\ apLog[2].candidate # <<>> /\ ExplicitCode(apLog[2]) \in apLog[2].stored
  /\ seqDoc = apLog[1].counterAfter /\ seqDoc # doc0
  /\ Len(cases) >= 1

\* C27: every code a committed allocation returned consists of hexadecimal
\* digits in upper case, has exactly as many characters as the width the
\* same transaction stored, and read as a hexadecimal number is the counter
\* value that transaction stored.
C27_CodeIsPaddedHexOfWidth ==
  \A i \in DOMAIN allocLog :
    LET e == allocLog[i] IN
    /\ \A k \in DOMAIN e.code : \E d \in DOMAIN HexDigit : HexDigit[d] = e.code[k]
    /\ Len(e.code) = e.wrote.digits
    /\ ParseHex(e.code) = e.wrote.v
    /\ e.wrote.v >= 1 /\ e.wrote.v < Pow16(e.wrote.digits)

\* a code issued as the growing allocator went from width 6 to width 7, and
\* a code with a letter digit
C27_CodeAcrossWidths ==
  /\ \E i \in DOMAIN allocLog :
       allocLog[i].read.digits = DEFAULT_DIGITS
         /\ allocLog[i].wrote.digits = DEFAULT_DIGITS + 1
         /\ allocLog[i].code = <<"0","0","0","0","0","0","1">>
  /\ \E i \in DOMAIN allocLog : allocLog[i].code[Len(allocLog[i].code)] = "F"

(***************************************************************************)
(* Basic, then Full: the provisional case becomes the final case           *)
(***************************************************************************)
\* Three runs over two workers and one message history, so that two Basic runs
\* of a message can overlap and a Full run can follow them
MaxRaceRuns == 3

InitRace ==
  /\ AllocQuiet /\ ExtQuiet
  /\ docs = [m \in Messages |-> MessageDoc(m, <<PathA>>, FALSE)]
  /\ cases = <<>>
  /\ messages = [m \in Messages |-> NoRow]
  /\ attachments = EmptyBag
  /\ mainPdfs = EmptyBag
  /\ loc = [w \in Workers |-> Idle]
  /\ runs = <<>>
  /\ started = 0
  /\ runLimit = MaxRaceRuns
  /\ workers = Workers

SpecRace == InitRace /\ [][SyncNext]_vars

\* run i is a completed Basic run and run j the next run of the same message,
\* a completed Full run, neither started with another run of the message in
\* flight, and the final number had no case before the Full run
BasicThenFull(i, j) ==
  /\ i < j
  /\ runs[i].kind = "basic" /\ runs[i].outcome = "ok" /\ runs[i].conc = NULL
  /\ runs[j].kind = "full" /\ runs[j].outcome = "ok" /\ runs[j].conc = NULL
  /\ runs[j].msg = runs[i].msg
  /\ \A k \in (i + 1)..(j - 1) : runs[k].msg # runs[i].msg
  /\ CasesUnder(PreDb(j), runs[j].key) = {}

\* C30: after Basic and then Full for a message, with a final management
\* number that had no case before the Full run, the case the Basic run left
\* the message in has the same id and is the one case keyed by the final
\* number, no case is keyed by the message id, the Full run has added no case
\* row, and the message row references that case.
C30_ProvisionalCasePromoted ==
  \A i \in DOMAIN runs : \A j \in DOMAIN runs :
    BasicThenFull(i, j) =>
      LET m     == runs[i].msg
          c     == runs[i].db.messages[m].case_id
          post  == runs[j].db
      IN /\ runs[i].db.cases[c].management_no = m
         /\ CasesUnder(post, runs[j].key) = {c}
         /\ CasesUnder(post, m) = {}
         /\ Len(post.cases) = Len(PreDb(j).cases)
         /\ post.messages[m].case_id = c

\* Basic and Full ran for a message, the first runs of the behaviour, and one
\* case row is all there is
C30_OneCaseAfterBoth ==
  /\ Len(runs) >= 2 /\ BasicThenFull(1, 2)
  /\ Len(runs[2].db.cases) = 1
  /\ runs[2].db.cases[1].management_no = runs[2].key

(***************************************************************************)
(* C24: store failures during Basic and Full                               *)
(***************************************************************************)
\* the step is a step of worker w
StepOf(w) == loc'[w] # loc[w]

\* the run that ended with this step
Ended == runs'[Len(runs')]

\* C24: once a store round trip of a Basic or Full run has failed, no step of
\* that run writes to the store any more, and when the run ends it ends by
\* throwing to its caller, not by returning normally.
C24_StoreFailureAborts ==
  [][/\ \A w \in Workers :
          (loc[w].failed # NULL /\ loc[w].kind \in {"basic", "full"} /\ StepOf(w))
            => Db' = Db
     /\ (runs' # runs /\ Ended.kind \in {"basic", "full"} /\ Ended.failed # NULL)
          => Ended.outcome = "threw"]_vars

(***************************************************************************)
(* C22, C23: failures while a leased message is processed                  *)
(***************************************************************************)
\* with this step worker b is through with the message it had in hand
MessageLeft(b) == bloc[b].m # NoRow /\ bloc'[b].m = NoRow

\* the lease columns of message m after the step: not processed, lease
\* released, the error recorded
FailedAndReleased(m) ==
  /\ batch'[m].processed_at = 0
  /\ batch'[m].processing_at = 0
  /\ batch'[m].ocr_status = "error"
  /\ batch'[m].ocr_error # NULL

\* C22: when the processing of a leased message has failed with an I/O error
\* (a read or the final update failed, or the OCR's calls failed), the worker
\* leaves the message not processed, its lease released, ocr_status "error"
\* and ocr_error set, and a request that ends with that message ends normally.
C22_FailureRecordedAndReleased ==
  [][\A b \in DOMAIN bloc :
       (MessageLeft(b) /\ (bloc[b].pc = "error" \/ bloc[b].fault = "io"))
         => /\ FailedAndReleased(bloc[b].m.id)
            /\ runs' # runs => Ended.outcome = "ok"]_vars

\* C23: when the OCR of a leased message has exceeded its deadline, the worker
\* leaves the message not processed and not "done", its lease released and an
\* error status recorded, and the step that ends the processing changes no
\* table row written before.
C23_TimeoutAborts ==
  [][\A b \in DOMAIN bloc :
       (MessageLeft(b) /\ bloc[b].fault = "timeout")
         => /\ FailedAndReleased(bloc[b].m.id)
            /\ batch'[bloc[b].m.id].ocr_status # "done"
            /\ Db' = Db]_vars

(***************************************************************************)
(* C21, C28: the lease                                                     *)
(***************************************************************************)
\* worker b has message m in hand: it has passed the lock update for it and
\* is not through with it
InHand(b, m) == bloc[b].m # NoRow /\ bloc[b].m.id = m

\* C28: two workers have the same message in hand only when the one that
\* came second passed its lock update more than the lock window after the
\* first did, that is, when the first one's processing has outlasted its lease.
C28_SecondWorkerOnlyAfterWindow ==
  \A b1 \in DOMAIN bloc : \A b2 \in DOMAIN bloc \ {b1} : \A m \in Messages :
    (InHand(b1, m) /\ InHand(b2, m) /\ bloc[b1].lockedAt <= bloc[b2].lockedAt)
      => bloc[b2].lockedAt - bloc[b1].lockedAt > LOCK_MINUTES

\* C21: a request selects at most its limit of messages, each of them not
\* processed and not under a lease younger than the lock window; and a worker
\* takes a message in hand only if the message is not processed, stamping
\* processing_at = now on it as it does: a processed message is not leased or
\* processed again.
C21_LeaseDiscipline ==
  [][\A b \in DOMAIN bloc :
       /\ (bloc[b].pc = "idle" /\ bloc'[b].pc = "lock")
            => /\ Len(bloc'[b].queue) <= bloc'[b].limit
               /\ bloc'[b].limit <= MAX_LIMIT
               /\ \A i \in DOMAIN bloc'[b].queue :
                    Eligible(bloc'[b].queue[i].id, LOCK_MINUTES)
       /\ (bloc[b].pc = "lock" /\ bloc'[b].pc = "read")
            => /\ batch[bloc'[b].m.id].processed_at = 0
               /\ batch'[bloc'[b].m.id].processing_at = now]_vars

(***************************************************************************)
(* C29: no message waits for ever                                          *)
(***************************************************************************)
\* message m is among the rows a request of worker b selected and has not
\* finished with
Picked(b, m) ==
  InHand(b, m) \/ \E i \in DOMAIN bloc[b].queue : bloc[b].queue[i].id = m

\* C29: under repeated requests every message that is not processed is
\* eventually selected by a request for processing, whatever happens to the
\* messages received after it.
C29_EveryPendingMessageSelected ==
  \A m \in Messages :
    (batch[m].processed_at = 0) ~> (\E b \in DOMAIN bloc : Picked(b, m))

(***************************************************************************)
(* C31: the rows of a message and its case                                 *)
(***************************************************************************)
\* C31: whenever no run is in flight, every attachment row and every
\* primary-document row of a message that has a row carries the case id of
\* the message row.
C31_RowsFollowMessageCase ==
  AllIdle =>
    \A m \in Messages :
      HasRow(m) =>
        \A r \in DOMAIN RowsOf(attachments, m) \cup DOMAIN RowsOf(mainPdfs, m) :
          r.case_id = messages[m].case_id

(***************************************************************************)
(* C32: runAfterProcess run again for a message                            *)
(***************************************************************************)
\* the cases keyed by a management number post-processing gave message m
\* (CasesUnder is over a store record; here the store is the current one)
CasesGivenTo(m) ==
  {c \in DOMAIN cases :
     \E i \in DOMAIN apLog : /\ apLog[i].msg = m
                              /\ cases[c].management_no = apLog[i].managementNo}

\* C32: a later runAfterProcess call for a message that an earlier call gave
\* a management number gives the same number and allocates no code, and the
\* cases keyed by the numbers given to a message are at most one.
C32_RerunKeepsNumberAndCase ==
  /\ \A i \in DOMAIN apLog : \A j \in DOMAIN apLog :
        (i < j /\ apLog[i].msg = apLog[j].msg)
          => /\ apLog[j].managementNo = apLog[i].managementNo
             /\ apLog[j].counterAfter = apLog[j].counterBefore
  /\ \A m \in Messages : Cardinality(CasesGivenTo(m)) <= 1

(***************************************************************************)
(* C33: a finished message stays finished                                  *)
(***************************************************************************)
\* C33: a message whose processed_at is set has ocr_status "done" and no
\* lease.
C33_ProcessedIsDone ==
  \A m \in Messages :
    batch[m].processed_at # 0
      => batch[m].ocr_status = "done" /\ batch[m].processing_at = 0

(***************************************************************************)
(* C34: the two passes of customer resolution                              *)
(***************************************************************************)
\* some record has an alias of some class in the text
AnyHit(t) == MailRecs(t) \cup FaxRecs(t) \cup NameRecs(t) # {}

\* the record the class priority picks in the text
ClassHit(t) ==
  IF MailRecs(t) # {} THEN CustomerOf(First(MailRecs(t)))
  ELSE IF FaxRecs(t) # {} THEN CustomerOf(First(FaxRecs(t)))
  ELSE IF NameRecs(t) # {} THEN CustomerOf(First(NameRecs(t)))
  ELSE NoCustomer

\* C34: when some alias of any class is part of the head of the candidate
\* text, the customer is the one the matcher picks in the head, whatever the
\* rest of the text holds; only when the head holds no alias is the customer
\* the one the matcher picks in the whole text.
C34_HeadFirstThenFull ==
  match.pc = "done" =>
    LET head == Slice(match.text, match.head) IN
      match.result = IF AnyHit(head) THEN ClassHit(head)
                     ELSE ClassHit(match.text)

\* the name alias of Acme in the head won although the text goes on to the
\* mail alias of A Corp, which the matcher alone would put first
C34_HeadNameBeatsFarMail ==
  /\ match.pc = "done"
  /\ master.sheet = Sheet(<<RowB, RowA>>)
  /\ match.text = TextNameFarMail
  /\ match.result = [id |-> "b", name |-> "Acme Inc"]
  /\ ClassHit(match.text) = [id |-> "a", name |-> "A Corp"]

(***************************************************************************)
(* handleHistory (part_012): the history jobs of a mailbox and the          *)
(* lastHistoryId its gmail_users document keeps; one action per read or     *)
(* write of the document, the listing and the handling of the new messages  *)
(* in between as one step                                                   *)
(***************************************************************************)
MaxHistoryId == 3

\* the history ids the push notifications of the mailbox carry
HistoryIds == 1..MaxHistoryId

HistFrame == UNCHANGED <<variant, seqDoc, seqVer, tx, allocLog, doc0, docs,
                         cases, messages, attachments, mainPdfs, loc, runs,
                         started, runLimit, workers, batch, bloc, master,
                         match, apLog, now>>

SetJ(j, r) == histJob' = [histJob EXCEPT ![j] = r]

\* the job starts and reads the document: without a stored id it goes on to
\* store its own, otherwise to list the history since the stored one
HistStart(j, h) ==
  /\ histJob[j].pc = "idle"
  /\ SetJ(j, [HistIdle EXCEPT !.pc = IF lastHistoryId = 0 THEN "init" ELSE "list",
                              !.historyId = h,
                              !.lastHistoryId = lastHistoryId])
  /\ UNCHANGED lastHistoryId /\ HistFrame

\* if (!lastHistoryId): set({lastHistoryId: historyId}); return
HistInit(j) ==
  /\ histJob[j].pc = "init"
  /\ lastHistoryId' = histJob[j].historyId
  /\ SetJ(j, HistIdle)
  /\ HistFrame

\* history.list (or the backfill on 404) and the handling of the messages
\* found, settled one by one; an error of the listing other than 404 is
\* thrown and ends the job before the document is written
HistList(j, ok) ==
  /\ histJob[j].pc = "list"
  /\ SetJ(j, IF ok THEN [histJob[j] EXCEPT !.pc = "recheck"] ELSE HistIdle)
  /\ UNCHANGED lastHistoryId /\ HistFrame

\* the document is read again: curId
HistRecheck(j) ==
  /\ histJob[j].pc = "recheck"
  /\ SetJ(j, [histJob[j] EXCEPT !.pc = "compare", !.curId = lastHistoryId])
  /\ UNCHANGED lastHistoryId /\ HistFrame

\* if (curId && BigInt(curId) > BigInt(historyId)) return;
\* set({lastHistoryId: historyId})
HistSet(j) ==
  /\ histJob[j].pc = "compare"
  /\ lastHistoryId' = IF histJob[j].curId # 0
                         /\ histJob[j].curId > histJob[j].historyId
                      THEN lastHistoryId ELSE histJob[j].historyId
  /\ SetJ(j, HistIdle)
  /\ HistFrame

HistoryNext ==
  \/ \E j \in HistJobs, h \in HistoryIds : HistStart(j, h)
  \/ \E j \in HistJobs, ok \in BOOLEAN : HistList(j, ok)
  \/ \E j \in HistJobs : HistInit(j) \/ HistRecheck(j) \/ HistSet(j)

InitHistory == AllocQuiet /\ SyncQuiet
SpecHistory == InitHistory /\ [][HistoryNext]_vars

(***************************************************************************)
(* C35: a Full run that ends between delete and insert                     *)
(***************************************************************************)
\* run i is a Full run that ended before the insert at pc
StoppedBefore(i, pc) ==
  runs[i].kind = "full" /\ runs[i].outcome = "stopped" /\ runs[i].failed = pc

\* run j is a completed Full run of message m
FullDone(j, m) ==
  runs[j].kind = "full" /\ runs[j].msg = m /\ runs[j].outcome = "ok"

\* no Full run of the message of run i has written since, and none is in
\* flight
NoFullSince(i) ==
  /\ \A j \in (i + 1)..Len(runs) :
       ~(runs[j].kind = "full" /\ runs[j].msg = runs[i].msg
           /\ runs[j].outcome # "skipped")
  /\ \A w \in Workers : ~(loc[w].kind = "full" /\ loc[w].msg = runs[i].msg)

\* run j is the first Full run of the message of run i to complete after it
NextFullDone(i, j) ==
  /\ i < j /\ FullDone(j, runs[i].msg)
  /\ \A k \in (i + 1)..(j - 1) : ~FullDone(k, runs[i].msg)

\* the primary-document rows of its message that run j leaves: one when the
\* run has a primary document, none otherwise
OneMainRow(j) ==
  BagCardinality(RowsOf(runs[j].db.mainPdfs, runs[j].msg)) =
    IF FinalMainPdfPath(runs[j]) # NoPath THEN 1 ELSE 0

\* the message has no row in either table while no Full run has come since
\* the run that ended before the insert
NoRowsInTheWindow ==
  \A i \in DOMAIN runs :
    /\ (StoppedBefore(i, "ins_att") /\ NoFullSince(i))
         => RowsOf(attachments, runs[i].msg) = EmptyBag
    /\ (StoppedBefore(i, "ins_main") /\ NoFullSince(i))
         => RowsOf(mainPdfs, runs[i].msg) = EmptyBag

BasicRun(i) == runs[i].kind = "basic"

\* C36: a Basic run leaves every attachment row, every primary-document
\* row and every other message row as it found them, leaves every case kept
\* under another management number than the message id as it was and adds
\* no case under another one; a Basic run whose round trips all succeeded
\* leaves the message row with a null primary-document path.
C36_BasicWritesCaseAndMessageOnly ==
  \A i \in DOMAIN runs : BasicRun(i) =>
    LET pre == PreDb(i)  post == runs[i].db  m == runs[i].msg IN
      /\ post.attachments = pre.attachments
      /\ post.mainPdfs = pre.mainPdfs
      /\ \A n \in Messages \ {m} : post.messages[n] = pre.messages[n]
      /\ \A c \in DOMAIN pre.cases :
           pre.cases[c].management_no # m
             => c \in DOMAIN post.cases /\ post.cases[c] = pre.cases[c]
      /\ \A c \in DOMAIN post.cases \ DOMAIN pre.cases :
           post.cases[c].management_no = m
      /\ (runs[i].outcome = "ok" /\ runs[i].failed = NULL)
           => /\ post.messages[m] # NoRow
              /\ post.messages[m].main_pdf_path = NoPath
              /\ CasesUnder(post, m) # {}

\* a Basic run came after a Full run of the message: it found attachment
\* rows, a primary-document path and a case under the management number,
\* and left the message row without the path
C36_BasicAfterFull ==
  \E i \in DOMAIN runs :
    /\ BasicRun(i) /\ runs[i].outcome = "ok" /\ runs[i].failed = NULL
    /\ RowsOf(PreDb(i).attachments, runs[i].msg) # EmptyBag
    /\ PreDb(i).messages[runs[i].msg] # NoRow
    /\ PreDb(i).messages[runs[i].msg].main_pdf_path # NoPath
    /\ \E c \in DOMAIN PreDb(i).cases :
         PreDb(i).cases[c].management_no # runs[i].msg
    /\ runs[i].db.messages[runs[i].msg].main_pdf_path = NoPath

(***************************************************************************)
(* C37: a failure on one message of a process-batch request                *)
(***************************************************************************)
\* the message the request of worker b is working on
InWork(b) ==
  IF bloc[b].pc = "lock" THEN Head(bloc[b].queue).id ELSE bloc[b].m.id

\* the selected messages the request of worker b has not come to yet
ToCome(b) ==
  IF bloc[b].pc = "lock" THEN Tail(bloc[b].queue) ELSE bloc[b].queue

\* the step ends the work on a message with a failure: the lock update
\* failed, or the handler of a thrown error has run
FailureEnds(b) ==
  /\ bloc'[b] # bloc[b]
  /\ \/ bloc[b].pc = "error"
     \/ bloc[b].pc = "lock" /\ bloc'[b].pc # "read"

\* the step takes the lease on the message it came to
Leases(b) ==
  /\ bloc[b].pc = "lock" /\ bloc'[b].pc = "read"
  /\ bloc'[b].m = Head(bloc[b].queue)
  /\ batch'[InWork(b)].processing_at = now
  /\ batch'[InWork(b)].ocr_status = "processing"

\* C37: within a process-batch request a step changes the rows of no
\* message but the one in work, and a failure that ends the work on a
\* message leaves the rest of the selection as it is: the request goes on to
\* lease the next selected message, or answers 200 when none is left.
C37_FailureStaysWithItsMessage ==
  [][\A b \in DOMAIN bloc :
       /\ \A n \in Messages :
            (\/ batch'[n] # batch[n] \/ messages'[n] # messages[n]
             \/ RowsOf(mainPdfs', n) # RowsOf(mainPdfs, n)
             \/ RowsOf(attachments', n) # RowsOf(attachments, n))
              => \E c \in DOMAIN bloc : bloc[c].pc # "idle" /\ n = InWork(c)
       /\ FailureEnds(b) =>
            IF ToCome(b) # <<>>
            THEN /\ bloc'[b].pc = "lock" /\ bloc'[b].queue = ToCome(b)
                 /\ runs' = runs
            ELSE /\ bloc'[b].pc = "idle"
                 /\ runs'[Len(runs')].outcome = "ok"
       /\ (bloc[b].pc = "lock" /\ bloc'[b].pc = "read") => Leases(b)
    ]_vars

\* the first request selected both messages; the one it came to first
\* failed and is recorded as an error, the other one is done
C37_SecondDoneAfterFirstFailed ==
  /\ Len(runs) = 1 /\ runs[1].kind = "batch" /\ runs[1].outcome = "ok"
  /\ runs[1].processed = 1
  /\ \E x \in Messages : \E y \in Messages \ {x} :
       /\ NewestFirst(Messages)[1] = x
       /\ batch[x].ocr_status = "error" /\ batch[x].processed_at = 0
       /\ batch[y].ocr_status = "done" /\ batch[y].processed_at # 0

(***************************************************************************)
(* C38: the lastHistoryId of a mailbox                                     *)
(***************************************************************************)
\* C38: the stored lastHistoryId of the mailbox never decreases, whatever
\* the order in which the history jobs of the mailbox start, overlap and
\* end: no step replaces a stored id by a smaller one.
C38_StoredIdNeverDecreases ==
  [][lastHistoryId' >= lastHistoryId]_vars

====
